---- MODULE Spec2Model ----
(***************************************************************************)
(* GDQL query compilation pipeline: lexer, parser, planner, song resolver, *)
(* date expander and SQL generator, modelled from the Go sources.          *)
(*                                                                         *)
(* Text is a sequence of runes; a rune is a one-character string.  Two     *)
(* runes that cannot be written as a TLA+ character are named: NUL is the  *)
(* rune 0 (also what the lexer's ch holds past the end of the input) and   *)
(* UQ is the Unicode double quote U+201C.                                  *)
(***************************************************************************)
EXTENDS Integers, Sequences, FiniteSets, TLC

VARIABLES
    lx,        \* the lexer under test: its fields and the peeked token
    out,       \* the tokens NextToken has returned so far, in order
    resolver,  \* the song catalog and the kind of resolver in front of it
    lookup,    \* the song name of the last Resolve call
    found,     \* the result of the last Resolve call
    query,     \* the query string of the current run
    run,       \* which run of the pipeline is in progress (1 or 2)
    stage,     \* how far the current run got
    ast,       \* the parser's result
    irq,       \* the planner's result
    sq,        \* the generator's result
    err,       \* the error that stopped the current run
    first,     \* what the first run was given and produced
    trace,     \* the stages the current run has gone through, in order
    result,    \* the Result the current run returned
    rs,        \* the result set the data source returned to the current run
    imp        \* the importer: its input, its progress and the database it writes

vars == <<lx, out, resolver, lookup, found, query, run, stage, ast, irq, sq, err, first,
          trace, result, rs, imp>>

----------------------------------------------------------------------------
(* Runes and strings                                                        *)

NUL == "NUL"
UQ == "U+201C"

LowerAlpha == <<"a","b","c","d","e","f","g","h","i","j","k","l","m",
                "n","o","p","q","r","s","t","u","v","w","x","y","z">>
UpperAlpha == <<"A","B","C","D","E","F","G","H","I","J","K","L","M",
                "N","O","P","Q","R","S","T","U","V","W","X","Y","Z">>
DigitRunes == <<"0","1","2","3","4","5","6","7","8","9">>

Range(s) == {s[i] : i \in DOMAIN s}

IsLetter(c) == c \in Range(LowerAlpha) \cup Range(UpperAlpha)
IsDigit(c) == c \in Range(DigitRunes)

IndexIn(s, c) == CHOOSE i \in DOMAIN s : s[i] = c

ToLowerRune(c) == IF c \in Range(UpperAlpha) THEN LowerAlpha[IndexIn(UpperAlpha, c)] ELSE c
ToUpperRune(c) == IF c \in Range(LowerAlpha) THEN UpperAlpha[IndexIn(LowerAlpha, c)] ELSE c

ToLower(s) == [i \in DOMAIN s |-> ToLowerRune(s[i])]
ToUpper(s) == [i \in DOMAIN s |-> ToUpperRune(s[i])]

HasPrefix(s, p) == Len(s) >= Len(p) /\ SubSeq(s, 1, Len(p)) = p
HasSuffix(s, p) == Len(s) >= Len(p) /\ SubSeq(s, Len(s) - Len(p) + 1, Len(s)) = p
TrimPrefix(s, p) == IF HasPrefix(s, p) THEN SubSeq(s, Len(p) + 1, Len(s)) ELSE s
TrimSuffix(s, p) == IF HasSuffix(s, p) THEN SubSeq(s, 1, Len(s) - Len(p)) ELSE s

\* The text of a rune sequence as one string.
\* []rune(s)
Runes(s) == [i \in 1..Len(s) |-> SubSeq(s, i, i)]

RECURSIVE Str(_)
Str(s) == IF s = <<>> THEN "" ELSE Head(s) \o Str(Tail(s))

RECURSIVE Concat(_)
Concat(ss) == IF ss = <<>> THEN <<>> ELSE Head(ss) \o Concat(Tail(ss))

----------------------------------------------------------------------------
(* Lexer (internal/lexer/lexer.go)                                          *)

isQuote(r) == r \in {"\"", UQ, "U+201D", "U+201E", "U+201F", "U+FF02"}

Position(l) == [Line |-> l.line, Column |-> l.col, Offset |-> l.offset]

Token(type, literal, pos) == [Type |-> type, Literal |-> literal, Pos |-> pos]

readChar(l) ==
    LET c == IF l.readPos >= Len(l.runes) THEN NUL ELSE l.runes[l.readPos + 1]
    IN [l EXCEPT !.ch = c,
                 !.pos = l.readPos,
                 !.offset = l.readPos,
                 !.readPos = l.readPos + 1,
                 !.line = IF c = "\n" THEN l.line + 1 ELSE l.line,
                 !.col = IF c = "\n" THEN 1 ELSE l.col + 1]

peekChar(l) == IF l.readPos >= Len(l.runes) THEN NUL ELSE l.runes[l.readPos + 1]

New(input) ==
    readChar([runes |-> input, pos |-> 0, readPos |-> 0, ch |-> NUL,
              line |-> 1, col |-> 1, offset |-> 0])

RECURSIVE skipWhitespace(_)
skipWhitespace(l) ==
    IF l.ch \in {" ", "\t", "\n", "\r"} THEN skipWhitespace(readChar(l)) ELSE l

RECURSIVE skipToEndOfLine(_)
skipToEndOfLine(l) ==
    IF l.ch # NUL /\ l.ch # "\n" THEN skipToEndOfLine(readChar(l)) ELSE l

skipComment(l) ==
    IF l.ch = "-" /\ peekChar(l) = "-" THEN skipToEndOfLine(l) ELSE l

\* nextToken lines 107-111: whitespace, then any number of comments.
RECURSIVE skipComments(_)
skipComments(l) ==
    IF l.ch = "-" /\ peekChar(l) = "-"
    THEN skipComments(skipWhitespace(skipComment(l)))
    ELSE l

Keywords ==
    {"SHOWS", "SONGS", "PERFORMANCES", "SETLIST", "FROM", "WHERE", "WITH",
     "WRITTEN", "ORDER", "BY", "LIMIT", "AS", "AND", "OR", "NOT", "OF", "INTO",
     "THEN", "TEASE", "SET1", "SET2", "SET3", "ENCORE", "OPENED", "CLOSED",
     "LYRICS", "LENGTH", "FIRST", "LAST", "COUNT", "DISTINCT", "PLAYED",
     "GUEST", "FOR", "ASC", "DESC"}

lookupIdent(ident) == IF Str(ident) \in Keywords THEN Str(ident) ELSE "ILLEGAL"

isDurationSuffix(s) ==
    Str(ToLower(s)) \in {"min", "mins", "minute", "minutes",
                         "sec", "secs", "second", "seconds"}

unterminated == Runes("unterminated string")

\* readString lines 205-231: the loop; b is the builder's content.
RECURSIVE readStringLoop(_, _)
readStringLoop(l, b) ==
    IF l.ch # NUL /\ ~isQuote(l.ch)
    THEN IF l.ch = "\\" /\ isQuote(peekChar(l))
         THEN [l |-> readChar(readChar(l)), b |-> b, closedByBackslashQuote |-> TRUE]
         ELSE IF l.ch = "\\"
         THEN LET l1 == readChar(l)
                  w == CASE l1.ch = "n" -> <<"\n">>
                         [] l1.ch = "t" -> <<"\t">>
                         [] l1.ch \in {"\"", "\\"} -> <<l1.ch>>
                         [] OTHER -> <<"\\", l1.ch>>
              IN readStringLoop(readChar(l1), b \o w)
         ELSE readStringLoop(readChar(l), Append(b, l.ch))
    ELSE [l |-> l, b |-> b, closedByBackslashQuote |-> FALSE]

readString(l, start) ==
    LET r == readStringLoop(readChar(l), <<>>)
    IN IF r.closedByBackslashQuote
       THEN [tok |-> Token("STRING", r.b, start), l |-> r.l]
       ELSE IF ~isQuote(r.l.ch)
       THEN [tok |-> Token("ILLEGAL", unterminated, start), l |-> r.l]
       ELSE [tok |-> Token("STRING", r.b, start), l |-> readChar(r.l)]

RECURSIVE readIdentLoop(_, _)
readIdentLoop(l, b) ==
    IF IsLetter(l.ch) \/ IsDigit(l.ch) \/ l.ch = "_" \/ l.ch = "."
    THEN readIdentLoop(readChar(l), Append(b, l.ch))
    ELSE [l |-> l, b |-> b]

readIdent(l, start) ==
    LET r == readIdentLoop(l, <<>>)
        tt == lookupIdent(ToUpper(r.b))
    IN [tok |-> Token(tt, r.b, start), l |-> r.l]

RECURSIVE readDigits(_, _)
readDigits(l, b) ==
    IF IsDigit(l.ch) THEN readDigits(readChar(l), Append(b, l.ch)) ELSE [l |-> l, b |-> b]

RECURSIVE readLetters(_, _)
readLetters(l, b) ==
    IF IsLetter(l.ch) THEN readLetters(readChar(l), Append(b, l.ch)) ELSE [l |-> l, b |-> b]

RECURSIVE skipSpaces(_)
skipSpaces(l) == IF l.ch = " " THEN skipSpaces(readChar(l)) ELSE l

\* readNumberOrDuration lines 265-268: the index of the first rune after the spaces.
RECURSIVE afterSpaces(_, _)
afterSpaces(runes, next) ==
    IF next < Len(runes) /\ runes[next + 1] = " " THEN afterSpaces(runes, next + 1) ELSE next

readNumberOrDuration(l, start) ==
    LET d == readDigits(l, <<>>)
        numLit == d.b
        l1 == d.l
        next == afterSpaces(l1.runes, l1.readPos)
        rest == ToLower(SubSeq(l1.runes, next + 1, Len(l1.runes)))
        spaced == /\ l1.ch = " "
                  /\ next < Len(l1.runes)
                  /\ \/ HasPrefix(rest, <<"m","i","n">>)
                     \/ HasPrefix(rest, <<"m","i","n","u","t","e">>)
                     \/ HasPrefix(rest, <<"s","e","c">>)
                     \/ HasPrefix(rest, <<"s","e","c","o","n","d">>)
    IN IF spaced
       THEN LET w == readLetters(skipSpaces(l1), numLit)
            IN [tok |-> Token("DURATION", w.b, start), l |-> w.l]
       ELSE IF IsLetter(l1.ch)
       THEN LET w == readLetters(l1, numLit)
                full == w.b
                suffix == ToLower(TrimPrefix(full, numLit))
            IN IF isDurationSuffix(suffix)
               THEN [tok |-> Token("DURATION", full, start), l |-> w.l]
               ELSE [tok |-> Token("NUMBER", numLit, start), l |-> w.l]
       ELSE [tok |-> Token("NUMBER", numLit, start), l |-> l1]

\* nextToken lines 183-184: a backslash that no quote follows.
loneBackslash_NoRead(l, pos) == [tok |-> Token("ILLEGAL", <<"\\">>, pos), l |-> l]

loneBackslash(l, pos) == [tok |-> Token("ILLEGAL", <<"\\">>, pos), l |-> readChar(l)]

RECURSIVE nextToken(_)
nextToken(l0) ==
    LET l == skipComments(skipWhitespace(l0))
        pos == Position(l)
        one(tt) == [tok |-> Token(tt, <<l.ch>>, pos), l |-> readChar(l)]
        two(tt) == [tok |-> Token(tt, <<l.ch, peekChar(l)>>, pos), l |-> readChar(readChar(l))]
        \* lines 143-144, 175-176, 195-196: the literal is read after readChar
        illegalNext == LET l1 == readChar(l)
                       IN [tok |-> Token("ILLEGAL", <<l1.ch>>, pos), l |-> l1]
    IN IF l.ch = NUL THEN [tok |-> Token("EOF", <<>>, Position(l)), l |-> l]
       ELSE CASE l.ch = ";" -> one("SEMICOLON")
              [] l.ch = "," -> one("COMMA")
              [] l.ch = "/" -> one("SLASH")
              [] l.ch = "(" -> one("LPAREN")
              [] l.ch = ")" -> one("RPAREN")
              [] l.ch = "=" -> one("EQ")
              [] l.ch = "!" -> IF peekChar(l) = "=" THEN two("NEQ") ELSE illegalNext
              [] l.ch = "<" -> IF peekChar(l) = "=" THEN two("LTEQ") ELSE one("LT")
              [] l.ch = ">" -> IF peekChar(l) = "=" THEN two("GTEQ")
                               ELSE IF peekChar(l) = ">" THEN two("GTGT")
                               ELSE one("GT")
              [] l.ch = "-" -> one("MINUS")
              [] l.ch = "~" -> IF peekChar(l) = ">" THEN two("TILDE_GT") ELSE illegalNext
              [] l.ch = "\\" -> IF isQuote(peekChar(l))
                                THEN nextToken(readChar(l))
                                ELSE loneBackslash(l, pos)
              [] OTHER -> IF isQuote(l.ch) THEN readString(l, pos)
                          ELSE IF IsLetter(l.ch) \/ l.ch = "_" THEN readIdent(l, pos)
                          ELSE IF IsDigit(l.ch) THEN readNumberOrDuration(l, pos)
                          ELSE illegalNext

\* All tokens of an input, up to and including the first EOF.
RECURSIVE lexAll(_)
lexAll(l) ==
    LET r == nextToken(l)
    IN IF r.tok.Type = "EOF" THEN <<r.tok>> ELSE <<r.tok>> \o lexAll(r.l)

Tokens(input) == lexAll(New(input))

----------------------------------------------------------------------------
(* Tokens (internal/token/token.go)                                         *)

\* TokenType.String
TokenTypeString(tt) ==
    CASE tt = "ILLEGAL" -> "<illegal>"
      [] tt = "EOF" -> "<eof>"
      [] tt = "STRING" -> "<string>"
      [] tt = "NUMBER" -> "<number>"
      [] tt = "DURATION" -> "<duration>"
      [] tt = "GT" -> ">"
      [] tt = "GTGT" -> ">>"
      [] tt = "TILDE_GT" -> "~>"
      [] tt = "EQ" -> "="
      [] tt = "LT" -> "<"
      [] tt = "GTEQ" -> ">="
      [] tt = "LTEQ" -> "<="
      [] tt = "NEQ" -> "!="
      [] tt = "MINUS" -> "-"
      [] tt = "LPAREN" -> "("
      [] tt = "RPAREN" -> ")"
      [] tt = "COMMA" -> ","
      [] tt = "SEMICOLON" -> ";"
      [] tt = "SLASH" -> "/"
      [] OTHER -> tt

----------------------------------------------------------------------------
(* Parser (internal/parser/parser.go)                                       *)
(*                                                                          *)
(* The parser's lexer is deterministic and nothing else reads from it, so   *)
(* the parser holds the whole token stream and an index: cur is the token   *)
(* at the index, peek the one after it.  Past the end the lexer keeps       *)
(* returning EOF.  An optional value (a Go pointer) is <<>> or <<v>>.       *)

cur(p) == IF p.i <= Len(p.toks) THEN p.toks[p.i] ELSE p.toks[Len(p.toks)]
peek(p) == IF p.i + 1 <= Len(p.toks) THEN p.toks[p.i + 1] ELSE p.toks[Len(p.toks)]
advance(p) == [p EXCEPT !.i = p.i + 1]
curIs(p, tt) == cur(p).Type = tt
peekIs(p, tt) == peek(p).Type = tt

NewFromString(input) == [toks |-> Tokens(input), i |-> 1, query |-> input]

\* NewFromReader lines 43-49: the parser's query field is left empty.
NewFromReader(input) == [toks |-> Tokens(input), i |-> 1, query |-> <<>>]

ParseError(pos, message, q, hint) ==
    [type |-> "ParseError", Pos |-> pos, Message |-> message, Query |-> q, Hint |-> hint]

Ok(p, v) == [ok |-> TRUE, p |-> p, v |-> v, err |-> <<>>]
Fail(p, message) ==
    [ok |-> FALSE, p |-> p, v |-> <<>>, err |-> <<ParseError(cur(p).Pos, message, p.query, "")>>]
FailHint(p, message, hint) ==
    [ok |-> FALSE, p |-> p, v |-> <<>>, err |-> <<ParseError(cur(p).Pos, message, p.query, hint)>>]

\* strconv.Atoi on a run of ASCII digits (its error is dropped by every caller).
RECURSIVE AtoiAcc(_, _)
AtoiAcc(s, acc) ==
    IF s = <<>> THEN acc
    ELSE IF ~IsDigit(Head(s)) THEN 0
    ELSE AtoiAcc(Tail(s), acc * 10 + (IndexIn(DigitRunes, Head(s)) - 1))

Atoi(s) == IF s = <<>> THEN 0 ELSE AtoiAcc(s, 0)

parseEraAlias(p) ==
    LET lit == Str(ToUpper(cur(p).Literal))
    IN CASE lit = "PRIMAL" -> <<"EraPrimal">>
         [] lit \in {"EUROPE72", "EUROPE"} -> <<"EraEurope72">>
         [] lit \in {"WALLOFOUND", "WALLOFSOUND"} -> <<"EraWallOfSound">>
         [] lit = "HIATUS" -> <<"EraHiatus">>
         [] lit \in {"BRENT_ERA", "BRENT"} -> <<"EraBrent">>
         [] lit \in {"VINCE_ERA", "VINCE"} -> <<"EraVince">>
         [] OTHER -> <<>>

Date(y, m, d, season) == [Year |-> y, Month |-> m, Day |-> d, Season |-> season]

\* v is [date, era]: one of the two is set.
parseDate(p) ==
    LET era == parseEraAlias(p)
    IN IF era # <<>> THEN Ok(advance(p), [date |-> <<>>, era |-> era])
       ELSE IF curIs(p, "NUMBER")
       THEN Ok(advance(p), [date |-> <<Date(Atoi(cur(p).Literal), 0, 0, <<>>)>>, era |-> <<>>])
       ELSE Fail(p, "expected date (year or era alias)")

parseDateRange(p) ==
    LET r == parseDate(p)
    IN IF ~r.ok THEN r
       ELSE LET dr == IF r.v.era # <<>>
                      THEN [Start |-> <<>>, End |-> <<>>, Era |-> r.v.era]
                      ELSE [Start |-> r.v.date, End |-> <<>>, Era |-> <<>>]
            IN IF curIs(r.p, "MINUS") /\ peekIs(r.p, "NUMBER")
               THEN LET e == parseDate(advance(r.p))
                    IN IF ~e.ok THEN e ELSE Ok(e.p, [dr EXCEPT !.End = e.v.date])
               ELSE Ok(r.p, dr)

parseSongRef(p) ==
    IF ~curIs(p, "STRING") THEN Fail(p, "expected quoted song name")
    ELSE Ok(advance(p), [Name |-> cur(p).Literal, Negated |-> FALSE])

parseSegueOp(p) ==
    CASE cur(p).Type \in {"GT", "INTO"} -> <<"SegueOpSegue">>
      [] cur(p).Type \in {"GTGT", "THEN"} -> <<"SegueOpBreak">>
      [] cur(p).Type \in {"TILDE_GT", "TEASE"} -> <<"SegueOpTease">>
      [] OTHER -> <<>>

parseCompOp(p) ==
    CASE curIs(p, "GT") -> <<"CompGT">>
      [] curIs(p, "LT") -> <<"CompLT">>
      [] curIs(p, "GTEQ") -> <<"CompGTE">>
      [] curIs(p, "LTEQ") -> <<"CompLTE">>
      [] curIs(p, "EQ") -> <<"CompEQ">>
      [] curIs(p, "NEQ") -> <<"CompNEQ">>
      [] OTHER -> <<>>

parseSetPosition(p) ==
    CASE curIs(p, "SET1") -> "Set1"
      [] curIs(p, "SET2") -> "Set2"
      [] curIs(p, "SET3") -> "Set3"
      [] curIs(p, "ENCORE") -> "Encore"
      [] OTHER -> "SetAny"

\* parseSegueCondition lines 337-354: the loop over operator/song pairs.
RECURSIVE segueLoop(_, _)
segueLoop(p, sc) ==
    LET op == parseSegueOp(p)
    IN IF op = <<>> THEN Ok(p, sc)
       ELSE LET p1 == advance(p)
            IN IF curIs(p1, "STRING")
               THEN LET nextRef == parseSongRef(p1)
                    IN segueLoop(nextRef.p,
                                 [sc EXCEPT !.Songs = Append(sc.Songs, nextRef.v),
                                            !.Operators = Append(sc.Operators, op[1])])
               ELSE Fail(p1, "expected song name after segue operator")

\* A parser that accepts a segue of one song.
segueCheck_NoMinimum(r) == r

\* parseSegueCondition lines 356-359: a segue has at least two songs.
segueCheck(r) ==
    IF Len(r.v.Songs) < 2 THEN Fail(r.p, "segue requires at least two songs") ELSE r

parseSegueCondition(p) ==
    LET ref == parseSongRef(p)
    IN IF ~ref.ok THEN ref
       ELSE LET r == segueLoop(ref.p, [kind |-> "SegueCondition",
                                       Songs |-> <<ref.v>>, Operators |-> <<>>])
            IN IF ~r.ok THEN r ELSE segueCheck(r)

conditionHint ==
    "use quoted song names, e.g. WHERE \"Scarlet Begonias\" > \"Fire on the Mountain\""

conditionHintPowerShell ==
    conditionHint \o "; in PowerShell use single quotes around the whole query: gdql 'SHOWS WHERE \"Scarlet Begonias\" > \"Fire on the Mountain\"', or use -f query.gdql"

\* strings.Contains
Contains(s, sub) == \E k \in 0..(Len(s) - Len(sub)) : SubSeq(s, k + 1, k + Len(sub)) = sub

\* fmt's %q verb (strconv.Quote) on the runes of the model's alphabet.
RECURSIVE quoteBody(_)
quoteBody(s) ==
    IF s = <<>> THEN ""
    ELSE (CASE Head(s) = "\"" -> "\\\""
            [] Head(s) = "\\" -> "\\\\"
            [] Head(s) = "\n" -> "\\n"
            [] Head(s) = NUL -> "\\x00"
            [] OTHER -> Head(s)) \o quoteBody(Tail(s))

Quote(s) == "\"" \o quoteBody(s) \o "\""

parseCondition(p) ==
    IF curIs(p, "NOT")
    THEN LET ref == parseSongRef(advance(p))
         IN IF ~ref.ok THEN ref
            ELSE Ok(ref.p, [kind |-> "PlayedCondition", Song |-> [ref.v EXCEPT !.Negated = TRUE]])
    ELSE IF cur(p).Type \in {"SET1", "SET2", "SET3", "ENCORE"}
    THEN LET set == parseSetPosition(p)
             p1 == advance(p)
             op == CASE curIs(p1, "OPENED") -> <<"PosOpened">>
                     [] curIs(p1, "CLOSED") -> <<"PosClosed">>
                     [] curIs(p1, "EQ") -> <<"PosEquals">>
                     [] OTHER -> <<>>
         IN IF op = <<>> THEN Fail(p1, "expected OPENED, CLOSED, or =")
            ELSE LET ref == parseSongRef(advance(p1))
                 IN IF ~ref.ok THEN ref
                    ELSE Ok(ref.p, [kind |-> "PositionCondition", Set |-> set,
                                    Operator |-> op[1], Song |-> ref.v])
    ELSE IF curIs(p, "PLAYED")
    THEN LET ref == parseSongRef(advance(p))
         IN IF ~ref.ok THEN ref
            ELSE Ok(ref.p, [kind |-> "PlayedCondition", Song |-> ref.v])
    ELSE IF curIs(p, "GUEST")
    THEN LET p1 == advance(p)
         IN IF ~curIs(p1, "STRING") THEN Fail(p1, "expected string after GUEST")
            ELSE Ok(advance(p1), [kind |-> "GuestCondition", Name |-> cur(p1).Literal])
    ELSE IF curIs(p, "LENGTH")
    THEN LET p1 == advance(p)
             paren == curIs(p1, "LPAREN")
             ref == IF paren THEN parseSongRef(advance(p1)) ELSE Ok(p1, <<>>)
         IN IF ~ref.ok THEN ref
            ELSE IF paren /\ ~curIs(ref.p, "RPAREN") THEN Fail(ref.p, "expected )")
            ELSE LET p2 == IF paren THEN advance(ref.p) ELSE p1
                     songRef == IF paren THEN <<ref.v>> ELSE <<>>
                     op == parseCompOp(p2)
                     p3 == advance(p2)
                 IN IF op = <<>> THEN Fail(p2, "expected comparison operator")
                    ELSE IF ~curIs(p3, "DURATION") /\ ~curIs(p3, "NUMBER")
                    THEN Fail(p3, "expected duration (e.g. 20min)")
                    ELSE Ok(advance(p3), [kind |-> "LengthCondition", Song |-> songRef,
                                          Operator |-> op[1], Duration |-> cur(p3).Literal])
    ELSE IF curIs(p, "STRING")
    THEN parseSegueCondition(p)
    ELSE FailHint(p,
           "expected condition (got " \o TokenTypeString(cur(p).Type) \o " "
               \o Quote(cur(p).Literal) \o ")",
           IF curIs(p, "ILLEGAL")
                 \/ Contains(cur(p).Literal, Runes("unterminated"))
           THEN conditionHintPowerShell
           ELSE conditionHint)

\* parseWhereClause lines 205-217: the loop over AND / OR.
RECURSIVE whereLoop(_, _)
whereLoop(p, wc) ==
    IF curIs(p, "AND") \/ curIs(p, "OR")
    THEN LET op == IF curIs(p, "AND") THEN "OpAnd" ELSE "OpOr"
             next == parseCondition(advance(p))
         IN IF ~next.ok THEN next
            ELSE whereLoop(next.p, [Conditions |-> Append(wc.Conditions, next.v),
                                    Operators |-> Append(wc.Operators, op)])
    ELSE Ok(p, wc)

parseWhereClause(p) ==
    LET cond == parseCondition(p)
    IN IF ~cond.ok THEN cond
       ELSE whereLoop(cond.p, [Conditions |-> <<cond.v>>, Operators |-> <<>>])

isOrderField(t) ==
    \/ t.Type = "STRING"
    \/ Str(t.Literal) \in {"DATE", "LENGTH", "RATING", "NAME", "TIMES_PLAYED"}

parseOutputFormat(p) ==
    LET lit == Str(ToUpper(cur(p).Literal))
    IN CASE lit = "JSON" -> "OutputJSON"
         [] lit = "CSV" -> "OutputCSV"
         [] lit = "SETLIST" -> "OutputSetlist"
         [] lit = "CALENDAR" -> "OutputCalendar"
         [] lit = "TABLE" -> "OutputTable"
         [] OTHER -> "OutputDefault"

\* q is the query the modifiers are stored in (show, song or perf).
RECURSIVE parseModifiers(_, _)
parseModifiers(p, q) ==
    IF curIs(p, "ORDER")
    THEN LET p1 == advance(p)
             p2 == advance(p1)
             p3 == advance(p2)
             desc == curIs(p3, "DESC")
             p4 == IF curIs(p3, "DESC") \/ curIs(p3, "ASC") THEN advance(p3) ELSE p3
         IN IF ~curIs(p1, "BY") THEN Fail(p1, "expected BY after ORDER")
            ELSE IF cur(p2).Type # "STRING" /\ ~isOrderField(cur(p2))
            THEN Fail(p2, "expected field name (DATE, LENGTH, RATING, etc.)")
            ELSE parseModifiers(p4, [q EXCEPT !.OrderBy =
                                        <<[Field |-> cur(p2).Literal, Desc |-> desc]>>])
    ELSE IF curIs(p, "LIMIT")
    THEN LET p1 == advance(p)
         IN IF ~curIs(p1, "NUMBER") THEN Fail(p1, "expected number after LIMIT")
            ELSE parseModifiers(advance(p1), [q EXCEPT !.Limit = <<Atoi(cur(p1).Literal)>>])
    ELSE IF curIs(p, "AS")
    THEN LET p1 == advance(p)
             fmt == parseOutputFormat(p1)
         IN parseModifiers(advance(p1),
                           IF q.kind = "ShowQuery" THEN [q EXCEPT !.OutputFmt = fmt] ELSE q)
    ELSE Ok(p, q)

\* The tail of every query parser: an earlier error is returned as it is.
optionalSemicolon(r) ==
    IF ~r.ok THEN r
    ELSE IF curIs(r.p, "SEMICOLON")
    THEN (IF ~curIs(advance(r.p), "EOF") THEN Fail(advance(r.p), "unexpected token after query")
          ELSE Ok(advance(r.p), r.v))
    ELSE (IF ~curIs(r.p, "EOF") THEN Fail(r.p, "unexpected token after query") ELSE r)

\* q.field = c, or c's error (the "if err != nil return; q.X = x" of the query parsers).
store(c, q, field) == IF c.ok THEN Ok(c.p, [q EXCEPT ![field] = <<c.v>>]) ELSE c

\* An optional clause of a query: "if p.curIs(kw) { p.advance(); x, err := parse() ... }".
clause(r, kw, field, parse(_)) ==
    IF ~r.ok \/ ~curIs(r.p, kw) THEN r ELSE store(parse(advance(r.p)), r.v, field)

\* "if err := p.parseModifiers(...); err != nil { return nil, err }"
modifiers(r) == IF r.ok THEN parseModifiers(r.p, r.v) ELSE r

parseShowQuery(p0) ==
    optionalSemicolon(modifiers(
        clause(clause(Ok(advance(p0),
                         [kind |-> "ShowQuery", From |-> <<>>, Where |-> <<>>,
                          OrderBy |-> <<>>, Limit |-> <<>>, OutputFmt |-> "OutputDefault"]),
                      "FROM", "From", parseDateRange),
               "WHERE", "Where", parseWhereClause)))

\* parseWithClause lines 572-579: the words of LYRICS( ... ).
RECURSIVE lyricsWords(_, _)
lyricsWords(p, words) ==
    IF curIs(p, "STRING")
    THEN LET p1 == advance(p)
         IN lyricsWords(IF curIs(p1, "COMMA") THEN advance(p1) ELSE p1,
                        Append(words, cur(p).Literal))
    ELSE [p |-> p, words |-> words]

RECURSIVE parseWithClause(_, _)
parseWithClause(p, wc) ==
    IF curIs(p, "LYRICS")
    THEN LET p1 == advance(p)
             w == lyricsWords(advance(p1), <<>>)
             p2 == advance(w.p)
             wc1 == [Conditions |-> Append(wc.Conditions,
                        [kind |-> "LyricsCondition", Words |-> w.words, Operator |-> "OpAnd"])]
         IN IF ~curIs(p1, "LPAREN") THEN Fail(p1, "expected ( after LYRICS")
            ELSE IF ~curIs(w.p, "RPAREN") THEN Fail(w.p, "expected )")
            ELSE IF curIs(p2, "COMMA") THEN parseWithClause(advance(p2), wc1)
            ELSE Ok(p2, wc1)
    ELSE IF curIs(p, "LENGTH")
    THEN LET p1 == advance(p)
             op == parseCompOp(p1)
             p2 == advance(p1)
             p3 == advance(p2)
             wc1 == [Conditions |-> Append(wc.Conditions,
                        [kind |-> "LengthWithCondition", Operator |-> op[1],
                         Duration |-> cur(p2).Literal])]
         IN IF op = <<>> THEN Fail(p1, "expected comparison after LENGTH")
            ELSE IF ~curIs(p2, "DURATION") /\ ~curIs(p2, "NUMBER")
            THEN Fail(p2, "expected duration")
            ELSE IF curIs(p3, "COMMA") THEN parseWithClause(advance(p3), wc1)
            ELSE Ok(p3, wc1)
    ELSE IF curIs(p, "GUEST")
    THEN LET p1 == advance(p)
             p2 == advance(p1)
             wc1 == [Conditions |-> Append(wc.Conditions,
                        [kind |-> "GuestWithCondition", Name |-> cur(p1).Literal])]
         IN IF ~curIs(p1, "STRING") THEN Fail(p1, "expected string after GUEST")
            ELSE IF curIs(p2, "COMMA") THEN parseWithClause(advance(p2), wc1)
            ELSE Ok(p2, wc1)
    ELSE Ok(p, wc)

\* parseWithClause starts from an empty clause.
parseWith(p) == parseWithClause(p, [Conditions |-> <<>>])

parseSongQuery(p0) ==
    optionalSemicolon(modifiers(
        clause(clause(Ok(advance(p0),
                         [kind |-> "SongQuery", With |-> <<>>, Written |-> <<>>,
                          OrderBy |-> <<>>, Limit |-> <<>>]),
                      "WITH", "With", parseWith),
               "WRITTEN", "Written", parseDateRange)))

\* parsePerformanceQuery lines 635-639: the song of the query.
performanceSong(ref) ==
    IF ~ref.ok THEN ref
    ELSE Ok(ref.p, [kind |-> "PerformanceQuery", Song |-> ref.v, From |-> <<>>,
                    With |-> <<>>, OrderBy |-> <<>>, Limit |-> <<>>])

parsePerformanceQuery(p0) ==
    IF ~curIs(advance(p0), "OF") THEN Fail(advance(p0), "expected OF after PERFORMANCES")
    ELSE optionalSemicolon(modifiers(
            clause(clause(performanceSong(parseSongRef(advance(advance(p0)))),
                          "FROM", "From", parseDateRange),
                   "WITH", "With", parseWith)))

\* parseDateForSetlist lines 704-709 and 716-721: the two-digit year pivot.
pivotYear(y) == IF y < 100 THEN (IF y + 1900 < 1970 THEN y + 2000 ELSE y + 1900) ELSE y

parseDateForSetlist(p) ==
    IF curIs(p, "STRING")
    THEN Ok(advance(p), Date(0, 0, 0, cur(p).Literal))
    ELSE IF curIs(p, "NUMBER")
    THEN LET m == Atoi(cur(p).Literal)
             p1 == advance(p)
             p2 == advance(p1)
             p3 == advance(p2)
             p4 == advance(p3)
         IN IF curIs(p1, "SLASH")
            THEN IF ~curIs(p2, "NUMBER") THEN Fail(p2, "expected day in M/D/YY")
                 ELSE IF ~curIs(p3, "SLASH") THEN Fail(p3, "expected / and year in M/D/YY")
                 ELSE IF ~curIs(p4, "NUMBER") THEN Fail(p4, "expected year")
                 ELSE Ok(advance(p4), Date(pivotYear(Atoi(cur(p4).Literal)), m,
                                           Atoi(cur(p2).Literal), <<>>))
            ELSE IF m >= 1900 \/ m < 100 THEN Ok(p1, Date(pivotYear(m), 0, 0, <<>>))
            ELSE Ok(p1, Date(m, 0, 0, <<>>))
    ELSE Fail(p, "expected date or string for SETLIST FOR")

\* parseSetlistQuery lines 672-677: the date of the query.
setlistDate(date) ==
    IF ~date.ok THEN date ELSE Ok(date.p, [kind |-> "SetlistQuery", Date |-> <<date.v>>])

parseSetlistQuery(p0) ==
    IF ~curIs(advance(p0), "FOR") THEN Fail(advance(p0), "expected FOR after SETLIST")
    ELSE optionalSemicolon(setlistDate(parseDateForSetlist(advance(advance(p0)))))

\* Parse returns (query, error): v is the query, or <<>> with the error in err.
Parse(p) ==
    IF curIs(p, "EOF")
    THEN [ok |-> FALSE, p |-> p, v |-> <<>>,
          err |-> <<ParseError([Line |-> 0, Column |-> 0, Offset |-> 0], "empty query", <<>>, "")>>]
    ELSE CASE curIs(p, "SHOWS") -> parseShowQuery(p)
           [] curIs(p, "SONGS") -> parseSongQuery(p)
           [] curIs(p, "PERFORMANCES") -> parsePerformanceQuery(p)
           [] curIs(p, "SETLIST") -> parseSetlistQuery(p)
           [] OTHER -> Fail(p, "unexpected " \o TokenTypeString(cur(p).Type)
                                  \o ", expected SHOWS, SONGS, PERFORMANCES, or SETLIST")

----------------------------------------------------------------------------
(* Song resolvers (internal/planner/resolver, internal/data/sqlite/db.go)   *)
(*                                                                          *)
(* A resolver state is either a StaticResolver ([kind |-> "static",         *)
(* ByName |-> a set of <<name, id>> pairs with distinct names]) or a        *)
(* DataSourceResolver over the songs and song_aliases tables ([kind |->     *)
(* "db", songs |-> a set of [ID, Name] rows with distinct ids and names,    *)
(* aliases |-> a set of [alias, song_id] rows]).  Go's map iteration order  *)
(* and an SQL LIMIT 1 without ORDER BY do not fix which of several matching *)
(* entries comes first, so a call yields a SET of possible results.         *)

ErrSongNotFound(name) == [type |-> "ErrSongNotFound", Name |-> name]

\* A (value, error) result: v is the value, err the optional error.
Val(v) == [ok |-> TRUE, v |-> v, err |-> <<>>]
Err(e) == [ok |-> FALSE, v |-> <<>>, err |-> <<e>>]

StaticResolver_Resolve(s, name) ==
    LET exact == {e \in s.ByName : e[1] = name}
        fold == {e \in s.ByName : ToLower(e[1]) = ToLower(name)}
    IN IF exact # {} THEN {Val(e[2]) : e \in exact}
       ELSE IF fold # {} THEN {Val(e[2]) : e \in fold}
       ELSE {Err(ErrSongNotFound(name))}

\* SQLite's TRIM(X, '- '): strip the runes '-' and ' ' from both ends.
RECURSIVE TrimLeft(_, _)
TrimLeft(s, cut) == IF s # <<>> /\ Head(s) \in cut THEN TrimLeft(Tail(s), cut) ELSE s

RECURSIVE TrimRight(_, _)
TrimRight(s, cut) ==
    IF s # <<>> /\ s[Len(s)] \in cut THEN TrimRight(SubSeq(s, 1, Len(s) - 1), cut) ELSE s

Trim(s, cut) == TrimRight(TrimLeft(s, cut), cut)

\* GetSong line 96: WHERE name = ? OR LOWER(name) = LOWER(?) LIMIT 1
songsByName(db, name) ==
    {r \in db.songs : r.Name = name \/ ToLower(r.Name) = ToLower(name)}

\* GetSong line 100: songs JOIN song_aliases WHERE a.alias = ? OR LOWER(a.alias) = LOWER(?) LIMIT 1
songsByAlias(db, name) ==
    {r \in db.songs : \E a \in db.aliases :
        /\ a.song_id = r.ID
        /\ (a.alias = name \/ ToLower(a.alias) = ToLower(name))}

\* GetSong line 105: WHERE LOWER(TRIM(name, '- ')) = LOWER(TRIM(?, '- ')) LIMIT 1
songsByTrim(db, name) ==
    {r \in db.songs : ToLower(Trim(r.Name, {"-", " "})) = ToLower(Trim(name, {"-", " "}))}

\* The rows GetSong can return; {} stands for (nil, nil).
GetSong(db, name) ==
    IF songsByName(db, name) # {} THEN songsByName(db, name)
    ELSE IF songsByAlias(db, name) # {} THEN songsByAlias(db, name)
    ELSE songsByTrim(db, name)

DataSourceResolver_Resolve(r, name) ==
    IF GetSong(r, name) = {} THEN {Err(ErrSongNotFound(name))}
    ELSE {Val(song.ID) : song \in GetSong(r, name)}

\* SongResolver.Resolve, dispatched on the resolver's dynamic type.
Resolve(r, name) ==
    IF r.kind = "static" THEN StaticResolver_Resolve(r, name)
    ELSE DataSourceResolver_Resolve(r, name)

\* Every order in which the elements of a finite set can be listed.
Orders(S) ==
    {f \in [1..Cardinality(S) -> S] : \A i, j \in 1..Cardinality(S) : f[i] = f[j] => i = j}

\* StaticResolver.ResolveFuzzy then Suggest: the matching names, in map order.
StaticResolver_Suggest(s, name) ==
    Orders({e[1] : e \in {e \in s.ByName :
                \/ Contains(ToLower(e[1]), ToLower(name))
                \/ Contains(ToLower(name), ToLower(e[1]))}})

\* The code-point order on the runes of the model's alphabet.
RuneOrder == <<NUL, "\n", " ", "!", "\"", "#", "-">> \o DigitRunes \o <<">", "?">>
                 \o UpperAlpha \o <<"\\", "_">> \o LowerAlpha

RuneLess(a, b) ==
    IF a \in Range(RuneOrder) /\ b \in Range(RuneOrder)
    THEN IndexIn(RuneOrder, a) < IndexIn(RuneOrder, b)
    ELSE a \notin Range(RuneOrder) /\ b \in Range(RuneOrder)

RECURSIVE StringLess(_, _)
StringLess(a, b) ==
    IF b = <<>> THEN FALSE
    ELSE IF a = <<>> THEN TRUE
    ELSE IF Head(a) = Head(b) THEN StringLess(Tail(a), Tail(b))
    ELSE RuneLess(Head(a), Head(b))

\* SearchSongs: WHERE name LIKE '%pattern%' ... ORDER BY name (short_name is NULL
\* in the modelled catalogs; patterns hold no LIKE wildcard).
SearchSongs(db, pattern) ==
    LET hits == {r.Name : r \in {r \in db.songs : Contains(ToLower(r.Name), ToLower(pattern))}}
    IN {f \in Orders(hits) : \A i, j \in DOMAIN f : i < j => StringLess(f[i], f[j])}

Suggest(r, name) ==
    IF r.kind = "static" THEN StaticResolver_Suggest(r, name) ELSE SearchSongs(r, name)

----------------------------------------------------------------------------
(* Date expander (internal/planner/expander/date.go)                        *)

IsLeap(y) == (y % 4 = 0 /\ y % 100 # 0) \/ y % 400 = 0

DaysIn(y, m) ==
    IF m = 2 THEN (IF IsLeap(y) THEN 29 ELSE 28)
    ELSE IF m \in {4, 6, 9, 11} THEN 30 ELSE 31

\* time.Date normalises a month past December and a day past the month's end.
RECURSIVE normDay(_, _, _)
normDay(y, m, d) ==
    IF d > DaysIn(y, m)
    THEN normDay(IF m = 12 THEN y + 1 ELSE y, IF m = 12 THEN 1 ELSE m + 1, d - DaysIn(y, m))
    ELSE [Year |-> y, Month |-> m, Day |-> d]

\* time.Date(y, m, d, h, mi, s, 0, time.UTC) for m >= 1, d >= 1.
timeDate(y, m, d, h, mi, s) ==
    LET ymd == normDay(y + ((m - 1) \div 12), ((m - 1) % 12) + 1, d)
    IN [Year |-> ymd.Year, Month |-> ymd.Month, Day |-> ymd.Day,
        Hour |-> h, Minute |-> mi, Second |-> s]

\* !a.After(b)
NotAfter(a, b) ==
    LET ka == <<a.Year, a.Month, a.Day, a.Hour, a.Minute, a.Second>>
        kb == <<b.Year, b.Month, b.Day, b.Hour, b.Minute, b.Second>>
    IN \/ ka = kb
       \/ \E i \in 1..6 : ka[i] < kb[i] /\ \A j \in 1..(i - 1) : ka[j] = kb[j]

ResolvedDateRange(start, end) == [Start |-> start, End |-> end]

ExpandEra(era) ==
    CASE era = "EraPrimal" ->
           <<ResolvedDateRange(timeDate(1965, 1, 1, 0, 0, 0), timeDate(1969, 12, 31, 23, 59, 59))>>
      [] era = "EraEurope72" ->
           <<ResolvedDateRange(timeDate(1972, 3, 1, 0, 0, 0), timeDate(1972, 5, 31, 23, 59, 59))>>
      [] era = "EraWallOfSound" ->
           <<ResolvedDateRange(timeDate(1974, 1, 1, 0, 0, 0), timeDate(1974, 12, 31, 23, 59, 59))>>
      [] era = "EraHiatus" ->
           <<ResolvedDateRange(timeDate(1975, 1, 1, 0, 0, 0), timeDate(1975, 12, 31, 23, 59, 59))>>
      [] era = "EraBrent" ->
           <<ResolvedDateRange(timeDate(1979, 1, 1, 0, 0, 0), timeDate(1990, 12, 31, 23, 59, 59))>>
      [] era = "EraVince" ->
           <<ResolvedDateRange(timeDate(1990, 1, 1, 0, 0, 0), timeDate(1995, 12, 31, 23, 59, 59))>>
      [] OTHER -> <<>>

\* An end of the range that takes the start year whether or not an end year
\* is given.
expandEnd_StartYear(dr) == timeDate(dr.Start[1].Year, 12, 31, 23, 59, 59)

\* Expand lines 36-38: the end of the range.
expandEnd(dr) ==
    IF dr.End # <<>> THEN timeDate(dr.End[1].Year, 12, 31, 23, 59, 59)
    ELSE timeDate(dr.Start[1].Year, 12, 31, 23, 59, 59)

\* dr is an optional *ast.DateRange; the result an optional *ir.ResolvedDateRange.
Expand(dr) ==
    IF dr = <<>> THEN <<>>
    ELSE IF dr[1].Era # <<>> THEN ExpandEra(dr[1].Era[1])
    ELSE IF dr[1].Start = <<>> THEN <<>>
    ELSE <<ResolvedDateRange(timeDate(dr[1].Start[1].Year, 1, 1, 0, 0, 0), expandEnd(dr[1]))>>

ExpandDate(date) ==
    timeDate(IF date.Year = 0 THEN 1970 ELSE date.Year,
             IF date.Month = 0 THEN 1 ELSE date.Month,
             IF date.Day = 0 THEN 1 ELSE date.Day, 0, 0, 0)

----------------------------------------------------------------------------
(* Planner (internal/planner/planner.go)                                    *)
(*                                                                          *)
(* Every operator that resolves a song returns the set of results the call  *)
(* can produce: [ok, v, err] with v the value and err the optional error.   *)

astSegueOpToIR(o) ==
    CASE o = "SegueOpSegue" -> "SegueOpSegue"
      [] o = "SegueOpBreak" -> "SegueOpBreak"
      [] o = "SegueOpTease" -> "SegueOpTease"
      [] OTHER -> "SegueOpSegue"

astSetPosToIR(s) ==
    CASE s = "Set1" -> "Set1"
      [] s = "Set2" -> "Set2"
      [] s = "Set3" -> "Set3"
      [] s = "Encore" -> "Encore"
      [] OTHER -> "SetAny"

astPosOpToIR(o) ==
    CASE o = "PosOpened" -> "PosOpened"
      [] o = "PosClosed" -> "PosClosed"
      [] o = "PosEquals" -> "PosEquals"
      [] OTHER -> "PosOpened"

astCompOpToIR(o) ==
    CASE o = "CompGT" -> "CompGT"
      [] o = "CompLT" -> "CompLT"
      [] o = "CompEQ" -> "CompEQ"
      [] o = "CompGTE" -> "CompGTE"
      [] o = "CompLTE" -> "CompLTE"
      [] o = "CompNEQ" -> "CompNEQ"
      [] OTHER -> "CompGT"

astLogicOpToIR(o) == IF o = "OpOr" THEN "OpOr" ELSE "OpAnd"

astOutputToIR(o) ==
    CASE o = "OutputJSON" -> "OutputJSON"
      [] o = "OutputCSV" -> "OutputCSV"
      [] o = "OutputSetlist" -> "OutputSetlist"
      [] o = "OutputCalendar" -> "OutputCalendar"
      [] o = "OutputTable" -> "OutputTable"
      [] OTHER -> "OutputDefault"

\* strings.TrimSpace
TrimSpace(s) == Trim(s, {" ", "\t", "\n", "\r"})

\* strconv.Atoi's error: the text is not a run of digits.
AtoiFails(s) == s = <<>> \/ \E i \in DOMAIN s : ~IsDigit(s[i])

\* The unit suffix parseDuration recognises: 60, 1, or 0 for none.
durationMult(s) ==
    IF HasSuffix(s, <<"m","i","n">>) THEN 60
    ELSE IF HasSuffix(s, <<"s","e","c">>) THEN 1
    ELSE 0

parseDuration(s0) ==
    LET s == TrimSpace(ToLower(s0))
        mult == durationMult(s)
        num == TrimSpace(IF mult = 60 THEN TrimSuffix(s, <<"m","i","n">>)
                         ELSE TrimSuffix(s, <<"s","e","c">>))
    IN IF s = <<>> THEN [sec |-> 0, err |-> FALSE]
       ELSE IF mult = 0 THEN [sec |-> 0, err |-> FALSE]
       ELSE IF AtoiFails(num) THEN [sec |-> 0, err |-> TRUE]
       ELSE [sec |-> Atoi(num) * mult, err |-> FALSE]

\* wrapSongNotFound line 169 (its dash written in ASCII).
emptyDatabaseHint ==
    "The database may be empty or this song wasn't imported. If you use setlist.fm import, the daily API limit may have been reached-run again tomorrow to resume. You can also use a pre-built shows.db from GitHub Releases."

wrapSongNotFound(r, e) ==
    IF e.type # "ErrSongNotFound" THEN {e}
    ELSE {[type |-> "QueryError", Type |-> "ErrSongNotFound", Message |-> e.Name,
           Suggestions |-> sg, Hint |-> IF Len(sg) = 0 THEN emptyDatabaseHint ELSE ""]
          : sg \in Suggest(r, e.Name)}

\* segueToIR lines 141-148: resolve the songs from index i on; ids holds the earlier ones.
RECURSIVE segueIDs(_, _, _, _)
segueIDs(r, songs, i, ids) ==
    IF i > Len(songs) THEN {Val(ids)}
    ELSE UNION {IF x.ok THEN segueIDs(r, songs, i + 1, Append(ids, x.v))
                ELSE {Err(e) : e \in wrapSongNotFound(r, x.err[1])}
                : x \in Resolve(r, songs[i].Name)}

segueToIR(r, seg) ==
    {IF x.ok
     THEN Val([SongIDs |-> x.v,
               Operators |-> [i \in 1..Len(seg.Operators) |-> astSegueOpToIR(seg.Operators[i])]])
     ELSE x
     : x \in segueIDs(r, seg.Songs, 1, <<>>)}

\* Resolve one name and build a condition from its id.
resolveThen(r, name, Build(_)) ==
    UNION {IF x.ok THEN {Val(<<Build(x.v)>>)}
           ELSE {Err(e) : e \in wrapSongNotFound(r, x.err[1])}
           : x \in Resolve(r, name)}

\* v is the optional ir.ConditionIR: <<>> for a nil condition.
conditionToIR(r, c) ==
    CASE c.kind = "SegueCondition" -> {Val(<<>>)}
      [] c.kind = "PositionCondition" ->
           LET B(id) == [kind |-> "PositionConditionIR", Set |-> astSetPosToIR(c.Set),
                         Operator |-> astPosOpToIR(c.Operator), SongID |-> id]
           IN resolveThen(r, c.Song.Name, B)
      [] c.kind = "PlayedCondition" ->
           LET B(id) == [kind |-> "PlayedConditionIR", SongID |-> id]
           IN resolveThen(r, c.Song.Name, B)
      [] c.kind = "LengthCondition" ->
           LET B(id) == [kind |-> "LengthConditionIR", SongID |-> <<id>>,
                         Operator |-> astCompOpToIR(c.Operator),
                         Seconds |-> parseDuration(c.Duration).sec]
           IN IF c.Song # <<>> THEN resolveThen(r, c.Song[1].Name, B)
              ELSE {Val(<<[kind |-> "LengthConditionIR", SongID |-> <<>>,
                           Operator |-> astCompOpToIR(c.Operator),
                           Seconds |-> parseDuration(c.Duration).sec]>>)}
      [] c.kind = "GuestCondition" -> {Val(<<[kind |-> "GuestConditionIR", Name |-> c.Name]>>)}
      [] OTHER -> {Val(<<>>)}

withConditionToIR(c) ==
    CASE c.kind = "LyricsCondition" ->
           <<[kind |-> "LyricsConditionIR", Words |-> c.Words,
              Operator |-> astLogicOpToIR(c.Operator)]>>
      [] c.kind = "LengthWithCondition" ->
           <<[kind |-> "LengthConditionIR", SongID |-> <<>>,
              Operator |-> astCompOpToIR(c.Operator),
              Seconds |-> parseDuration(c.Duration).sec]>>
      [] c.kind = "GuestWithCondition" -> <<[kind |-> "GuestConditionIR", Name |-> c.Name]>>
      [] OTHER -> <<>>

QueryIR(type) ==
    [Type |-> type, DateRange |-> <<>>, SingleDate |-> <<>>, SongID |-> <<>>,
     SegueChain |-> <<>>, Conditions |-> <<>>, OrderBy |-> <<>>, Limit |-> <<>>,
     OutputFmt |-> "OutputDefault"]

OrderByIR(ob) == IF ob = <<>> THEN <<>> ELSE <<[Field |-> ob[1].Field, Desc |-> ob[1].Desc]>>

\* planShow line 56: only a segue in first position is lifted.
liftsSegue(c, i, o) == c.kind = "SegueCondition" /\ i = 1 /\ o.SegueChain = <<>>

\* planShow lines 55-71: the loop over the WHERE conditions from index i on.
RECURSIVE planShowConditions(_, _, _, _)
planShowConditions(r, conds, i, o) ==
    IF i > Len(conds) THEN {Val(o)}
    ELSE IF liftsSegue(conds[i], i, o)
    THEN UNION {IF x.ok THEN planShowConditions(r, conds, i + 1, [o EXCEPT !.SegueChain = <<x.v>>])
                ELSE {Err(e) : e \in wrapSongNotFound(r, x.err[1])}
                : x \in segueToIR(r, conds[i])}
    ELSE UNION {IF x.ok
                THEN planShowConditions(r, conds, i + 1,
                        IF x.v # <<>> THEN [o EXCEPT !.Conditions = Append(o.Conditions, x.v[1])]
                        ELSE o)
                ELSE {Err(e) : e \in wrapSongNotFound(r, x.err[1])}
                : x \in conditionToIR(r, conds[i])}

planShow(r, s) ==
    LET o == [QueryIR("QueryTypeShows") EXCEPT !.DateRange = Expand(s.From)]
        conds == IF s.Where # <<>> THEN s.Where[1].Conditions ELSE <<>>
    IN {IF x.ok
        THEN Val([x.v EXCEPT !.OrderBy = OrderByIR(s.OrderBy), !.Limit = s.Limit,
                             !.OutputFmt = astOutputToIR(s.OutputFmt)])
        ELSE x
        : x \in planShowConditions(r, conds, 1, o)}

\* planSong lines 87-95 and planPerformance lines 113-121: the WITH conditions.
withConditions(w) ==
    IF w = <<>> THEN <<>>
    ELSE [i \in 1..Len(w[1].Conditions) |-> withConditionToIR(w[1].Conditions[i])]

planSong(s) ==
    {Val([QueryIR("QueryTypeSongs") EXCEPT !.DateRange = Expand(s.Written),
                                           !.Conditions = Concat(withConditions(s.With)),
                                           !.OrderBy = OrderByIR(s.OrderBy),
                                           !.Limit = s.Limit])}

planPerformance(r, perf) ==
    UNION {IF x.ok
           THEN {Val([QueryIR("QueryTypePerformances") EXCEPT
                        !.SongID = <<x.v>>,
                        !.DateRange = Expand(perf.From),
                        !.Conditions = Concat(withConditions(perf.With)),
                        !.OrderBy = OrderByIR(perf.OrderBy),
                        !.Limit = perf.Limit])}
           ELSE {Err(e) : e \in wrapSongNotFound(r, x.err[1])}
           : x \in Resolve(r, perf.Song.Name)}

planSetlist(sl) ==
    {Val([QueryIR("QueryTypeSetlist") EXCEPT
            !.SingleDate = IF sl.Date # <<>> THEN <<ExpandDate(sl.Date[1])>> ELSE <<>>])}

Plan(r, q) ==
    CASE q.kind = "ShowQuery" -> planShow(r, q)
      [] q.kind = "SongQuery" -> planSong(q)
      [] q.kind = "PerformanceQuery" -> planPerformance(r, q)
      [] q.kind = "SetlistQuery" -> planSetlist(q)

----------------------------------------------------------------------------
(* SQL generator (internal/planner/sqlgen/sqlgen.go, segue.go)              *)
(*                                                                          *)
(* SQL text is a string; an argument is tagged with its Go dynamic type.    *)

ArgInt(n) == [k |-> "int", v |-> n]
ArgString(s) == [k |-> "string", v |-> s]

SQLQuery(sql, args) == [ok |-> TRUE, SQL |-> sql, Args |-> args, err |-> "", panic |-> FALSE]
GenError(msg) == [ok |-> FALSE, SQL |-> "", Args |-> <<>>, err |-> msg, panic |-> FALSE]

\* A run-time panic inside the generator: nothing is returned to the caller.
GenPanic(msg) == [ok |-> FALSE, SQL |-> "", Args |-> <<>>, err |-> msg, panic |-> TRUE]

\* strconv.Itoa / fmt's %d for n >= 0
RECURSIVE Itoa(_)
Itoa(n) == IF n < 10 THEN DigitRunes[n + 1] ELSE Itoa(n \div 10) \o DigitRunes[(n % 10) + 1]

\* fmt's %02d and %04d
Pad(n, width) ==
    LET d == Itoa(n)
    IN IF Len(d) >= width THEN d
       ELSE CASE width - Len(d) = 1 -> "0" \o d
              [] width - Len(d) = 2 -> "00" \o d
              [] OTHER -> "000" \o d

\* strings.Join
RECURSIVE Join(_, _)
Join(parts, sep) ==
    IF parts = <<>> THEN ""
    ELSE IF Len(parts) = 1 THEN parts[1]
    ELSE parts[1] \o sep \o Join(Tail(parts), sep)

\* t.Format("2006-01-02")
formatDate(t) == Pad(t.Year, 4) \o "-" \o Pad(t.Month, 2) \o "-" \o Pad(t.Day, 2)

compOpSQL(op) ==
    CASE op = "CompGT" -> ">"
      [] op = "CompLT" -> "<"
      [] op = "CompEQ" -> "="
      [] op = "CompGTE" -> ">="
      [] op = "CompLTE" -> "<="
      [] op = "CompNEQ" -> "!="
      [] OTHER -> ">"

segueOpToSQL(op) ==
    CASE op = "SegueOpSegue" -> ">"
      [] op = "SegueOpBreak" -> ">>"
      [] op = "SegueOpTease" -> "~>"
      [] OTHER -> ">"

setPositionToNumber(s) ==
    CASE s = "Set1" -> 1
      [] s = "Set2" -> 2
      [] s = "Set3" -> 3
      [] s = "Encore" -> 3
      [] OTHER -> 0

positionCondition(c) ==
    CASE c.Operator = "PosOpened" ->
           [part |-> "EXISTS (SELECT 1 FROM performances p WHERE p.show_id = s.id AND p.set_number = ? AND p.song_id = ? AND p.is_opener = 1)",
            args |-> <<ArgInt(setPositionToNumber(c.Set)), ArgInt(c.SongID)>>]
      [] c.Operator = "PosClosed" ->
           [part |-> "EXISTS (SELECT 1 FROM performances p WHERE p.show_id = s.id AND p.set_number = ? AND p.song_id = ? AND p.is_closer = 1)",
            args |-> <<ArgInt(setPositionToNumber(c.Set)), ArgInt(c.SongID)>>]
      [] c.Operator = "PosEquals" ->
           [part |-> "EXISTS (SELECT 1 FROM performances p WHERE p.show_id = s.id AND p.set_number = ? AND p.song_id = ?)",
            args |-> <<ArgInt(setPositionToNumber(c.Set)), ArgInt(c.SongID)>>]
      [] OTHER -> [part |-> "", args |-> <<>>]

\* The date-range arguments shared by every generator.
dateRangeArgs(q) ==
    <<ArgString(formatDate(q.DateRange[1].Start)), ArgString(formatDate(q.DateRange[1].End))>>

\* whereShows lines 187-200: the part and args of one condition; no part for
\* a kind the switch has no case for.
whereShowsCondition(c) ==
    CASE c.kind = "PositionConditionIR" ->
           [parts |-> <<positionCondition(c).part>>, args |-> positionCondition(c).args]
      [] c.kind = "PlayedConditionIR" ->
           [parts |-> <<"EXISTS (SELECT 1 FROM performances p WHERE p.show_id = s.id AND p.song_id = ?)">>,
            args |-> <<ArgInt(c.SongID)>>]
      [] c.kind = "GuestConditionIR" ->
           [parts |-> <<"EXISTS (SELECT 1 FROM performances p WHERE p.show_id = s.id AND p.guest IS NOT NULL AND p.guest != '' AND (p.guest = ? OR p.guest LIKE ?))">>,
            args |-> <<ArgString(Str(c.Name)), ArgString("%" \o Str(c.Name) \o "%")>>]
      [] OTHER -> [parts |-> <<>>, args |-> <<>>]

whereShows(q) ==
    LET cs == [i \in 1..Len(q.Conditions) |-> whereShowsCondition(q.Conditions[i])]
        dateParts == IF q.DateRange # <<>> THEN <<"s.date >= ? AND s.date <= ?">> ELSE <<>>
        dateArgs == IF q.DateRange # <<>> THEN dateRangeArgs(q) ELSE <<>>
    IN [clause |-> Join(dateParts \o Concat([i \in 1..Len(cs) |-> cs[i].parts]), " AND "),
        args |-> dateArgs \o Concat([i \in 1..Len(cs) |-> cs[i].args])]

orderBy(q, prefix) ==
    IF q.OrderBy = <<>> THEN ""
    ELSE LET field == IF q.OrderBy[1].Field = <<>> THEN <<"d","a","t","e">>
                      ELSE q.OrderBy[1].Field
             dir == IF q.OrderBy[1].Desc THEN "DESC" ELSE "ASC"
             upper == Str(ToUpper(field))
             col == CASE upper = "DATE" -> prefix \o ".date"
                      [] upper = "LENGTH" /\ prefix = "p" -> "p.length_seconds"
                      [] upper = "RATING" -> prefix \o ".rating"
                      [] upper = "NAME" -> prefix \o ".name"
                      [] upper = "TIMES_PLAYED" -> prefix \o ".times_played"
                      [] OTHER -> prefix \o "." \o Str(ToLower(field))
         IN "ORDER BY " \o col \o " " \o dir

limit(q) == IF q.Limit = <<>> THEN "" ELSE "LIMIT ?"

limitArgs(q) == IF q.Limit = <<>> THEN <<>> ELSE <<ArgInt(q.Limit[1])>>

\* fmt.Sprintf("p%d", i)
alias(i) == "p" \o Itoa(i)

\* BuildSegueShowsSQL lines 17-23: pad a short operator list with SegueOpSegue.
padOps(ops, n) ==
    [i \in 1..(IF Len(ops) < n - 1 THEN n - 1 ELSE Len(ops)) |->
        IF i <= Len(ops) THEN ops[i] ELSE "SegueOpSegue"]

\* BuildSegueShowsSQL lines 31-39: the chain of performances joins, aliases i..n.
RECURSIVE performancesJoins(_, _)
performancesJoins(i, n) ==
    IF i > n THEN ""
    ELSE (IF i = 1 THEN "performances " \o alias(i)
          ELSE " JOIN performances " \o alias(i) \o " ON " \o alias(i - 1) \o ".show_id = "
                 \o alias(i) \o ".show_id AND " \o alias(i - 1) \o ".set_number = "
                 \o alias(i) \o ".set_number AND " \o alias(i - 1) \o ".position = "
                 \o alias(i) \o ".position - 1")
         \o performancesJoins(i + 1, n)

\* BuildSegueShowsSQL lines 40-43: the songs joins i..n.
RECURSIVE songsJoins(_, _)
songsJoins(i, n) ==
    IF i > n THEN ""
    ELSE " JOIN songs s" \o Itoa(i) \o " ON p" \o Itoa(i) \o ".song_id = s" \o Itoa(i)
           \o ".id AND s" \o Itoa(i) \o ".id = ?" \o songsJoins(i + 1, n)

\* BuildSegueShowsSQL lines 45-48: the segue_type constraints i..n-1.
RECURSIVE segueTypes(_, _)
segueTypes(i, n) ==
    IF i > n - 1 THEN ""
    ELSE " AND p" \o Itoa(i) \o ".segue_type = ?" \o segueTypes(i + 1, n)

\* A generator that binds the segue symbols before the song ids.
segueArgs_SymbolsFirst(chain, ops, n) ==
    [i \in 1..(n - 1) |-> ArgString(segueOpToSQL(ops[i]))]
        \o [i \in 1..n |-> ArgInt(chain.SongIDs[i])]

\* BuildSegueShowsSQL lines 42 and 47: the ids, then the segue symbols.
segueArgs(chain, ops, n) ==
    [i \in 1..n |-> ArgInt(chain.SongIDs[i])]
        \o [i \in 1..(n - 1) |-> ArgString(segueOpToSQL(ops[i]))]

\* BuildSegueShowsSQL lines 56-76: the part and args of one condition.
segueCondition(c) ==
    CASE c.kind = "PositionConditionIR" ->
           [parts |-> CASE c.Operator = "PosOpened" ->
                             <<"EXISTS (SELECT 1 FROM performances px WHERE px.show_id = s.id AND px.set_number = ? AND px.song_id = ? AND px.is_opener = 1)">>
                        [] c.Operator = "PosClosed" ->
                             <<"EXISTS (SELECT 1 FROM performances px WHERE px.show_id = s.id AND px.set_number = ? AND px.song_id = ? AND px.is_closer = 1)">>
                        [] c.Operator = "PosEquals" ->
                             <<"EXISTS (SELECT 1 FROM performances px WHERE px.show_id = s.id AND px.set_number = ? AND px.song_id = ?)">>
                        [] OTHER -> <<>>,
            args |-> <<ArgInt(setPositionToNumber(c.Set)), ArgInt(c.SongID)>>]
      [] c.kind = "PlayedConditionIR" ->
           [parts |-> <<"EXISTS (SELECT 1 FROM performances px WHERE px.show_id = s.id AND px.song_id = ?)">>,
            args |-> <<ArgInt(c.SongID)>>]
      [] c.kind = "GuestConditionIR" ->
           [parts |-> <<"EXISTS (SELECT 1 FROM performances px WHERE px.show_id = s.id AND px.guest IS NOT NULL AND (px.guest = ? OR px.guest LIKE ?))">>,
            args |-> <<ArgString(Str(c.Name)), ArgString("%" \o Str(c.Name) \o "%")>>]
      [] OTHER -> [parts |-> <<>>, args |-> <<>>]

BuildSegueShowsSQL(q) ==
    IF q.SegueChain = <<>> \/ Len(q.SegueChain[1].SongIDs) < 2
    THEN GenError("segue chain requires at least 2 songs")
    ELSE LET chain == q.SegueChain[1]
             n == Len(chain.SongIDs)
             ops == padOps(chain.Operators, n)
             cs == [i \in 1..Len(q.Conditions) |-> segueCondition(q.Conditions[i])]
             whereParts == (IF q.DateRange # <<>> THEN <<"s.date >= ? AND s.date <= ?">>
                            ELSE <<>>) \o Concat([i \in 1..Len(cs) |-> cs[i].parts])
             whereArgs == (IF q.DateRange # <<>> THEN dateRangeArgs(q) ELSE <<>>)
                              \o Concat([i \in 1..Len(cs) |-> cs[i].args])
         IN SQLQuery(
              "SELECT DISTINCT s.id, s.date, s.venue_id, v.name AS venue, v.city, v.state, s.notes, s.rating FROM "
                \o performancesJoins(1, n) \o songsJoins(1, n) \o segueTypes(1, n)
                \o " JOIN shows s ON p1.show_id = s.id LEFT JOIN venues v ON s.venue_id = v.id"
                \o (IF Len(whereParts) > 0 THEN " WHERE " \o Join(whereParts, " AND ") ELSE "")
                \o (IF q.OrderBy # <<>>
                    THEN " ORDER BY s.date " \o (IF q.OrderBy[1].Desc THEN "DESC" ELSE "ASC")
                    ELSE "")
                \o (IF q.Limit # <<>> THEN " LIMIT ?" ELSE ""),
              segueArgs(chain, ops, n) \o whereArgs \o limitArgs(q))

genShowsWithSegue(q) == BuildSegueShowsSQL(q)

genShows(q) ==
    IF q.SegueChain # <<>> /\ Len(q.SegueChain[1].SongIDs) >= 2 THEN genShowsWithSegue(q)
    ELSE LET w == whereShows(q)
             order == orderBy(q, "s")
         IN SQLQuery(
              "SELECT s.id, s.date, s.venue_id, v.name AS venue, v.city, v.state, s.notes, s.rating FROM shows s LEFT JOIN venues v ON s.venue_id = v.id"
                \o (IF w.clause # "" THEN " WHERE " \o w.clause ELSE "")
                \o (IF order # "" THEN " " \o order ELSE "")
                \o (IF limit(q) # "" /\ q.Limit # <<>> THEN " " \o limit(q) ELSE ""),
              (IF w.clause # "" THEN w.args ELSE <<>>)
                \o (IF limit(q) # "" /\ q.Limit # <<>> THEN limitArgs(q) ELSE <<>>))

\* genSongs lines 240-257: the part and args of one condition.
songsCondition(c) ==
    IF c.kind = "LyricsConditionIR" /\ Len(c.Words) # 0
    THEN [parts |-> <<"EXISTS (SELECT 1 FROM lyrics l WHERE l.song_id = songs.id AND ("
                        \o Join([i \in 1..Len(c.Words) |-> "l.lyrics LIKE ?"],
                                IF c.Operator = "OpOr" THEN " OR " ELSE " AND ")
                        \o "))">>,
          args |-> [i \in 1..Len(c.Words) |-> ArgString("%" \o Str(c.Words[i]) \o "%")]]
    ELSE [parts |-> <<>>, args |-> <<>>]

genSongs(q) ==
    LET cs == [i \in 1..Len(q.Conditions) |-> songsCondition(q.Conditions[i])]
        parts == Concat([i \in 1..Len(cs) |-> cs[i].parts])
                   \o (IF q.DateRange # <<>> THEN <<"first_played >= ? AND last_played <= ?">>
                       ELSE <<>>)
        order == orderBy(q, "songs")
    IN SQLQuery(
         "SELECT id, name, short_name, writers, first_played, last_played, times_played FROM songs"
           \o (IF Len(parts) > 0 THEN " WHERE " \o Join(parts, " AND ") ELSE "")
           \o (IF order # "" THEN " " \o order ELSE "")
           \o (IF q.Limit # <<>> THEN " LIMIT ?" ELSE ""),
         Concat([i \in 1..Len(cs) |-> cs[i].args])
           \o (IF q.DateRange # <<>> THEN dateRangeArgs(q) ELSE <<>>)
           \o limitArgs(q))

\* genPerformances lines 287-292: the text and args of one condition.
performancesCondition(c) ==
    IF c.kind = "LengthConditionIR"
    THEN [sql |-> " AND p.length_seconds " \o compOpSQL(c.Operator) \o " ?",
          args |-> <<ArgInt(c.Seconds)>>]
    ELSE [sql |-> "", args |-> <<>>]

\* genPerformances dereferences q.SongID: a nil pointer panics.
genPerformances(q) ==
    IF q.SongID = <<>>
    THEN GenPanic("runtime error: invalid memory address or nil pointer dereference")
    ELSE LET cs == [i \in 1..Len(q.Conditions) |-> performancesCondition(q.Conditions[i])]
             order == orderBy(q, "p")
         IN SQLQuery(
              "SELECT p.id, p.show_id, p.song_id, p.set_number, p.position, p.segue_type, p.length_seconds FROM performances p JOIN shows s ON p.show_id = s.id WHERE p.song_id = ?"
                \o (IF q.DateRange # <<>> THEN " AND s.date >= ? AND s.date <= ?" ELSE "")
                \o Join([i \in 1..Len(cs) |-> cs[i].sql], "")
                \o (IF order # "" THEN " " \o order ELSE "")
                \o (IF q.Limit # <<>> THEN " LIMIT ?" ELSE ""),
              <<ArgInt(q.SongID[1])>>
                \o (IF q.DateRange # <<>> THEN dateRangeArgs(q) ELSE <<>>)
                \o Concat([i \in 1..Len(cs) |-> cs[i].args])
                \o limitArgs(q))

genSetlist(q) ==
    IF q.SingleDate = <<>> THEN GenError("setlist query requires a date")
    ELSE SQLQuery(
           "SELECT p.id, p.show_id, p.song_id, p.set_number, p.position, p.segue_type, p.length_seconds, songs.name FROM performances p JOIN shows s ON p.show_id = s.id JOIN songs ON p.song_id = songs.id WHERE s.date = ? ORDER BY p.set_number, p.position",
           <<ArgString(formatDate(q.SingleDate[1]))>>)

Generate(q) ==
    CASE q.Type = "QueryTypeShows" -> genShows(q)
      [] q.Type = "QueryTypeSongs" -> genSongs(q)
      [] q.Type = "QueryTypePerformances" -> genPerformances(q)
      [] q.Type = "QueryTypeSetlist" -> genSetlist(q)
      [] OTHER -> GenError("unknown query type: " \o q.Type)

\* strings.Count(sql, sub) for a text sub without self-overlap.
Count(sql, sub) ==
    Cardinality({i \in 1..(Len(sql) - Len(sub) + 1) : SubSeq(sql, i, i + Len(sub) - 1) = sub})

----------------------------------------------------------------------------
(* The lexer as an object: NextToken and PeekToken (lexer.go 96-103, 387-394) *)

MaxPieces == 3

LexPieces ==
    {<<"9">>, <<"m","i","n">>, <<" ">>, <<"\"">>, <<"\\">>, <<"-">>,
     <<"\n">>, <<">">>, <<"!">>, <<"a">>, <<"#">>, <<NUL>>}

\* Digits, a gap, a word that is or is not a unit of time, and a tail.
NumberInputs ==
    {Runes(d \o gap \o w \o tail) :
        d \in {"9", "20"},
        gap \in {"", " ", "  "},
        w \in {"min", "mins", "minute", "minutes", "sec", "secs", "second", "seconds",
               "MIN", "Sec", "minx", "minimum", "section", "mi", "m", "hours", ""},
        tail \in {"", " 9"}}

LexInputs ==
    UNION {{Concat(ps) : ps \in [1..k -> LexPieces]} : k \in 0..MaxPieces} \cup NumberInputs

lexerVars == <<lx, out>>
resolveVars == <<resolver, lookup, found>>
pipelineVars == <<query, run, stage, ast, irq, sq, err, first, trace, result, rs>>
importVars == <<imp>>

ImportOff == imp = [on |-> FALSE]

LexerOff == lx = [l |-> New(<<>>), peeked |-> <<>>, peekRet |-> <<>>, on |-> FALSE] /\ out = <<>>

ResolveOff == lookup = <<>> /\ found = <<>>

PipelineOff ==
    /\ query = <<>>
    /\ run = 0
    /\ stage = "off"
    /\ ast = <<>>
    /\ irq = <<>>
    /\ sq = <<>>
    /\ err = <<>>
    /\ first = <<>>
    /\ trace = <<>>
    /\ result = <<>>
    /\ rs = <<>>

InitLex ==
    /\ \E input \in LexInputs :
          lx = [l |-> New(input), peeked |-> <<>>, peekRet |-> <<>>, on |-> TRUE]
    /\ out = <<>>
    /\ resolver = [kind |-> "none"]
    /\ ResolveOff
    /\ PipelineOff
    /\ ImportOff

\* The caller stops calling one call after the input is used up.  peekRet
\* is what the PeekToken calls since the last NextToken returned.
NextToken ==
    /\ lx.on
    /\ Len(out) < Len(lx.l.runes) + 2
    /\ IF lx.peeked # <<>>
       THEN /\ out' = Append(out, lx.peeked[1])
            /\ lx' = [lx EXCEPT !.peeked = <<>>, !.peekRet = <<>>]
       ELSE LET r == nextToken(lx.l)
            IN /\ out' = Append(out, r.tok)
               /\ lx' = [lx EXCEPT !.l = r.l, !.peekRet = <<>>]
    /\ UNCHANGED <<resolveVars, pipelineVars, importVars>>

\* A PeekToken that reads the token and does not keep it.
PeekToken_Consume ==
    /\ lx.on
    /\ LET r == nextToken(lx.l)
       IN lx' = [lx EXCEPT !.l = r.l, !.peekRet = <<r.tok>>]
    /\ UNCHANGED <<out, resolveVars, pipelineVars, importVars>>

PeekToken ==
    /\ lx.on
    /\ IF lx.peeked # <<>>
       THEN lx' = [lx EXCEPT !.peekRet = lx.peeked]
       ELSE LET r == nextToken(lx.l)
            IN lx' = [lx EXCEPT !.l = r.l, !.peeked = <<r.tok>>, !.peekRet = <<r.tok>>]
    /\ UNCHANGED <<out, resolveVars, pipelineVars, importVars>>

NextLex == NextToken \/ PeekToken

SpecLex == InitLex /\ [][NextLex]_vars

NonEOF == {i \in DOMAIN out : out[i].Type # "EOF"}

\* C7: lexing is total. Every token returned before EOF starts at a later
\* input offset than the one before it (each call consumes at least one
\* rune), so at most Len(input) calls return something other than EOF and
\* the call after them returns EOF; irregular input yields ILLEGAL tokens,
\* and every token carries a position (line and column from 1; a token
\* other than EOF starts inside the input).
C7_LexingTotal ==
    /\ Cardinality(NonEOF) <= Len(lx.l.runes)
    /\ \A i, j \in NonEOF : i < j => out[i].Pos.Offset < out[j].Pos.Offset
    /\ Len(out) = Len(lx.l.runes) + 1 => out[Len(out)].Type = "EOF"
    /\ \A i \in DOMAIN out :
          /\ out[i].Pos.Line >= 1
          /\ out[i].Pos.Column >= 1
          /\ out[i].Pos.Offset >= 0
          /\ out[i].Type # "EOF" => out[i].Pos.Offset < Len(lx.l.runes)
          /\ (i > 1 /\ out[i-1].Type = "EOF") => out[i].Type = "EOF"

\* An unterminated string and a lone backslash were lexed as ILLEGAL and EOF followed.
C7_Witness ==
    /\ \E i \in DOMAIN out : out[i].Type = "ILLEGAL" /\ out[i].Literal = unterminated
    /\ \E i \in DOMAIN out :
          /\ out[i].Type = "ILLEGAL"
          /\ out[i].Literal = <<"\\">>
          /\ lx.l.runes[out[i].Pos.Offset + 1] = "\\"
    /\ out # <<>> /\ out[Len(out)].Type = "EOF"

----------------------------------------------------------------------------
(* The pipeline: Execute parses, plans and generates (executor/engine.go    *)
(* 72-91, up to the SQL handed to the data source), run twice.              *)

MaxConds == 2

\* Song catalogs: a static resolver whose names differ only by case, a plain
\* static resolver, and the database resolver with an alias.
Resolvers ==
    {[kind |-> "static", ByName |-> {<<Runes("Ab"), 1>>, <<Runes("aB"), 2>>, <<Runes("B"), 3>>}],
     [kind |-> "static", ByName |-> {<<Runes("Ab"), 1>>, <<Runes("B"), 2>>}],
     [kind |-> "db",
      songs |-> {[ID |-> 1, Name |-> Runes("Ab")], [ID |-> 2, Name |-> Runes("B")]},
      aliases |-> {[alias |-> Runes("C"), song_id |-> 2]}]}

Conds ==
    {"PLAYED \"ab\"", "\"Ab\" > \"B\"", "\"ab\" >> \"B\" ~> \"Ab\"", "\"Ab\"",
     "SET1 OPENED \"B\"", "GUEST \"x\"", "LENGTH > 20min", "NOT \"ab\"",
     "\"D\" > \"B\"", "PLAYED \"C\""}

\* cs[1] op[1] cs[2] op[2] ... cs[k]
RECURSIVE joinConds(_, _)
joinConds(cs, ops) ==
    IF Len(cs) = 1 THEN cs[1]
    ELSE cs[1] \o " " \o ops[1] \o " " \o joinConds(Tail(cs), Tail(ops))

Wheres ==
    UNION {{joinConds(cs, ops) : cs \in [1..k -> Conds], ops \in [1..(k - 1) -> {"AND", "OR"}]}
           : k \in 1..MaxConds}

Years == {"1977", "1980"}

Froms ==
    {"", " FROM PRIMAL", " FROM brent", " FROM 77", " FROM 77-80"}
      \cup {" FROM " \o y : y \in Years}
      \cup {" FROM " \o y1 \o "-" \o y2 : y1 \in Years, y2 \in Years}

OrderBys ==
    {"", " ORDER BY DATE", " ORDER BY LENGTH ASC", " ORDER BY \"x\" DESC", " ORDER BY \"x?\""}

Limits == {"", " LIMIT 5"}

Units == {"", "min", "mins", "minute", "minutes", "sec", "secs", "second", "seconds",
          "MIN", "hours"}

Durations == {"20" \o sp \o u : sp \in {"", " "}, u \in Units}

ShowQueries ==
    {"SHOWS WHERE " \o w : w \in Wheres}
      \cup {"SHOWS" \o f \o w \o o \o l :
              f \in Froms, w \in {"", " WHERE \"Ab\" > \"B\"", " WHERE GUEST \"x\""},
              o \in OrderBys, l \in Limits}

SongQueries ==
    {"SONGS" \o w \o d \o o \o l :
        w \in {"", " WITH LYRICS(\"x\")", " WITH LYRICS(\"x\", \"y\"), GUEST \"x\"",
               " WITH LENGTH > 20min"},
        d \in {"", " WRITTEN 1977", " WRITTEN 77"},
        o \in {"", " ORDER BY NAME", " ORDER BY \"x\""},
        l \in Limits}

PerformanceQueries ==
    {"PERFORMANCES OF " \o n \o f \o w \o o :
        n \in {"\"Ab\"", "\"A\""},
        f \in {"", " FROM 1977"},
        w \in {""} \cup {" WITH LENGTH > " \o d : d \in Durations},
        o \in {"", " ORDER BY LENGTH DESC LIMIT 5"}}

SetlistQueries ==
    {"SETLIST FOR 5/8/77", "SETLIST FOR 1977", "SETLIST FOR 13/45/5;", "SETLIST FOR 13/32/77", "SETLIST FOR \"x\"",
     "SETLIST", "", "shows", "SHOWS AS json -- done"}

Queries ==
    {Runes(q) : q \in ShowQueries \cup SongQueries \cup PerformanceQueries \cup SetlistQueries}

\* Whether index i of q lies inside a string literal that began before it,
\* when index 1 does (inLiteral) or does not.
InLiteral(q, i, inLiteral) ==
    (Cardinality({j \in 1..(i - 1) : q[j] = "\""}) % 2 = 1) # inLiteral

\* The same query with other contents in its string literals: x and y
\* exchanged, or the letters in lower case; or with the words outside its
\* string literals in lower case.
relabel(q, inLiteral, how) ==
    [i \in DOMAIN q |->
        IF q[i] = "\"" THEN q[i]
        ELSE IF ~InLiteral(q, i, inLiteral)
        THEN (IF how = "keywords" THEN ToLowerRune(q[i]) ELSE q[i])
        ELSE IF how = "keywords" THEN q[i]
        ELSE IF how = "lower" THEN ToLowerRune(q[i])
        ELSE IF q[i] = "x" THEN "y"
        ELSE IF q[i] = "y" THEN "x"
        ELSE q[i]]

\* The indexes of q where a NOT outside string literals begins.
NotAt(q, inLiteral) ==
    {i \in 1..(Len(q) - 3) :
        /\ SubSeq(q, i, i + 3) = <<"N", "O", "T", " ">>
        /\ ~InLiteral(q, i, inLiteral)}

\* pieces[lo] \o ... \o pieces[hi]
RECURSIVE Flatten(_, _, _)
Flatten(pieces, lo, hi) ==
    IF lo > hi THEN <<>>
    ELSE IF lo = hi THEN pieces[lo]
    ELSE Flatten(pieces, lo, (lo + hi) \div 2) \o Flatten(pieces, ((lo + hi) \div 2) + 1, hi)

\* The same query with PLAYED in the place of every NOT outside string literals.
Unnegated(q, inLiteral) ==
    Flatten([i \in DOMAIN q |->
                IF i \in NotAt(q, inLiteral) THEN <<"P", "L", "A", "Y", "E", "D">>
                ELSE IF \E k \in 1..2 : (i - k) \in NotAt(q, inLiteral) THEN <<>>
                ELSE <<q[i]>>],
            1, Len(q))

Variants(q) ==
    {relabel(q, FALSE, how) : how \in {"lower", "exchange", "keywords"}}
      \cup {Unnegated(q, FALSE)}

Init ==
    /\ LexerOff
    /\ ImportOff
    /\ resolver \in Resolvers
    /\ ResolveOff
    /\ query \in Queries
    /\ run = 1
    /\ stage = "start"
    /\ ast = <<>>
    /\ irq = <<>>
    /\ sq = <<>>
    /\ err = <<>>
    /\ first = <<>>
    /\ trace = <<>>
    /\ result = <<>>
    /\ rs = <<>>

\* Execute lines 73-77
ExecuteParse ==
    /\ stage = "start"
    /\ LET r == Parse(NewFromString(query))
       IN IF r.ok
          THEN ast' = <<r.v>> /\ stage' = "parsed" /\ err' = err
          ELSE ast' = ast /\ stage' = "failed" /\ err' = r.err
    /\ trace' = Append(trace, "parse")
    /\ UNCHANGED <<lexerVars, resolveVars, query, run, irq, sq, first, result, rs, importVars>>

\* ExecuteAST lines 86-89
ExecutePlan ==
    /\ stage = "parsed"
    /\ \E x \in Plan(resolver, ast[1]) :
          IF x.ok
          THEN irq' = <<x.v>> /\ stage' = "planned" /\ err' = err
          ELSE irq' = irq /\ stage' = "failed" /\ err' = x.err
    /\ trace' = Append(trace, "plan")
    /\ UNCHANGED <<lexerVars, resolveVars, query, run, ast, sq, first, result, rs, importVars>>

\* ExecuteAST lines 90-93
ExecuteGenerate ==
    /\ stage = "planned"
    /\ LET g == Generate(irq[1])
       IN IF g.ok
          THEN sq' = <<g>> /\ stage' = "generated" /\ err' = err
          ELSE IF g.panic
          THEN sq' = sq /\ stage' = "panicked" /\ err' = err
          ELSE sq' = sq /\ stage' = "failed" /\ err' = <<g.err>>
    /\ trace' = Append(trace, "generate")
    /\ UNCHANGED <<lexerVars, resolveVars, query, run, ast, irq, first, result, rs, importVars>>

\* An executor that calls the data source again after it returned an error.
ExecuteQuery_Retry ==
    /\ stage = "generated"
    /\ \E ok \in BOOLEAN :
          /\ stage' = IF ok THEN "executed" ELSE "generated"
          /\ rs' = IF ok THEN <<<<>>>> ELSE rs
    /\ trace' = Append(trace, "execute")
    /\ UNCHANGED <<lexerVars, resolveVars, query, run, ast, irq, sq, err, first, result, importVars>>

MaxRows == 2

RowShowIDs == {1, 2}

\* The result sets the data source can return: for the setlist query, rows
\* of its eight columns, of which the show id is kept; the rows of the other
\* query types are not modelled.
ResultSets(t) ==
    IF t = "QueryTypeSetlist"
    THEN UNION {[1..n -> [cols : {8}, show_id : RowShowIDs]] : n \in 0..MaxRows}
    ELSE {<<>>}

\* ExecuteAST lines 95-98: the data source returns a result set or an error.
ExecuteQuery ==
    /\ stage = "generated"
    /\ \/ /\ stage' = "executed"
          /\ err' = err
          /\ \E rows \in ResultSets(irq[1].Type) : rs' = <<rows>>
       \/ /\ stage' = "failed"
          /\ err' = <<[type |-> "DataSourceError"]>>
          /\ rs' = rs
    /\ trace' = Append(trace, "execute")
    /\ UNCHANGED <<lexerVars, resolveVars, importVars, query, run, ast, irq, sq, first, result>>

\* mapRowsToPerformances line 172: rows of fewer than seven columns are skipped.
hasPerformanceColumns(row) == row.cols >= 7

mapRowsToPerformances(rows) ==
    LET kept == SelectSeq(rows, hasPerformanceColumns)
    IN [i \in DOMAIN kept |-> [ShowID |-> kept[i].show_id]]

\* time.Time{}
zeroTime == [Year |-> 1, Month |-> 1, Day |-> 1, Hour |-> 0, Minute |-> 0, Second |-> 0]

SetlistResult(date, showID, perfs) == [Date |-> date, ShowID |-> showID, Performances |-> perfs]

\* singleDate is the IR's optional single date.
mapRowsToSetlist(rows, singleDate) ==
    LET perfs == mapRowsToPerformances(rows)
    IN IF Len(perfs) = 0 THEN SetlistResult(zeroTime, 0, perfs)
       ELSE SetlistResult(IF singleDate # <<>> THEN singleDate[1] ELSE zeroTime,
                          perfs[1].ShowID, perfs)

\* ExecuteAST lines 101-116: the Result's type.
resultType(t) ==
    CASE t = "QueryTypeShows" -> "ResultShows"
      [] t = "QueryTypeSongs" -> "ResultSongs"
      [] t = "QueryTypePerformances" -> "ResultPerformances"
      [] t = "QueryTypeSetlist" -> "ResultSetlist"
      [] OTHER -> ""

\* ExecuteAST lines 100-120: map the rows and build the Result (the mappers
\* return no error).
MapRows ==
    /\ stage = "executed"
    /\ IF resultType(irq[1].Type) = ""
       THEN stage' = "failed" /\ err' = <<[type |-> "UnknownQueryType"]>> /\ result' = result
       ELSE /\ stage' = "done"
            /\ err' = err
            /\ result' = <<[Type |-> resultType(irq[1].Type), SQL |-> sq[1].SQL,
                            OutputFmt |-> irq[1].OutputFmt,
                            Setlist |-> IF irq[1].Type = "QueryTypeSetlist"
                                        THEN <<mapRowsToSetlist(rs[1], irq[1].SingleDate)>>
                                        ELSE <<>>]>>
    /\ trace' = Append(trace, "map")
    /\ UNCHANGED <<lexerVars, resolveVars, importVars, query, run, ast, irq, sq, first, rs>>

\* A second Execute on the same executor, with the same query, a variant of
\* it, or its counterpart without NOT.
ExecuteAgain ==
    /\ run = 1
    /\ stage \in {"done", "failed"}
    /\ \E q \in {query} \cup Variants(query) :
          /\ query' = q
          /\ first' = <<[query |-> query, stage |-> stage, ast |-> ast, irq |-> irq,
                         sq |-> sq, err |-> err]>>
    /\ run' = 2
    /\ stage' = "start"
    /\ ast' = <<>>
    /\ irq' = <<>>
    /\ sq' = <<>>
    /\ err' = <<>>
    /\ trace' = <<>>
    /\ result' = <<>>
    /\ rs' = <<>>
    /\ UNCHANGED <<lexerVars, resolveVars, importVars>>

Next ==
    ExecuteParse \/ ExecutePlan \/ ExecuteGenerate \/ ExecuteQuery \/ MapRows \/ ExecuteAgain

Spec == Init /\ [][Next]_vars

Planned == stage \in {"planned", "generated"}

BothGenerated == run = 2 /\ stage = "generated" /\ first[1].sq # <<>>

\* The token stream of a query with the contents of its string literals blanked.
LiteralsBlanked(q) ==
    [i \in DOMAIN Tokens(q) |->
        IF Tokens(q)[i].Type = "STRING" THEN <<"STRING">>
        ELSE <<Tokens(q)[i].Type, Tokens(q)[i].Literal>>]

\* The song id a condition is bound to, if any.
ConditionSongID(c) ==
    IF c.kind \in {"PositionConditionIR", "PlayedConditionIR"} THEN <<c.SongID>>
    ELSE IF c.kind = "LengthConditionIR" THEN c.SongID
    ELSE <<>>

\* Every song id of a QueryIR.
SongIDsOf(q) ==
    <<q.SongID,
      IF q.SegueChain = <<>> THEN <<>> ELSE q.SegueChain[1].SongIDs,
      [i \in 1..Len(q.Conditions) |-> ConditionSongID(q.Conditions[i])]>>

\* C1: the SQL text holds nothing taken from the query's string literals:
\* two accepted queries that differ only in the contents of their string
\* literals, and whose song names resolve to the same ids, produce the same
\* SQL text.
C1_NoLiteralTextInSQL ==
    (/\ BothGenerated
     /\ LiteralsBlanked(first[1].query) = LiteralsBlanked(query)
     /\ SongIDsOf(first[1].irq[1]) = SongIDsOf(irq[1]))
    => sq[1].SQL = first[1].sq[1].SQL

\* Two queries were compiled that differ in a quoted ORDER BY field only.
C1_Witness ==
    /\ BothGenerated
    /\ first[1].query # query
    /\ LiteralsBlanked(first[1].query) = LiteralsBlanked(query)
    /\ irq[1].OrderBy # <<>>
    /\ irq[1].OrderBy[1].Field # first[1].irq[1].OrderBy[1].Field

\* C3: a segue chain in the IR of a SHOWS query has at least two song ids
\* and exactly one operator fewer than song ids.
C3_SegueChainShape ==
    (Planned /\ irq[1].Type = "QueryTypeShows" /\ irq[1].SegueChain # <<>>)
    => /\ Len(irq[1].SegueChain[1].SongIDs) >= 2
       /\ Len(irq[1].SegueChain[1].Operators) = Len(irq[1].SegueChain[1].SongIDs) - 1

\* A SHOWS query with a three-song segue was planned.
C3_Witness ==
    /\ Planned
    /\ irq[1].Type = "QueryTypeShows"
    /\ irq[1].SegueChain # <<>>
    /\ Len(irq[1].SegueChain[1].SongIDs) = 3

\* C6: compiling the same query string twice against the same resolver
\* state gives the same SQL text and the same Args.
C6_Deterministic ==
    (BothGenerated /\ first[1].query = query)
    => /\ sq[1].SQL = first[1].sq[1].SQL
       /\ sq[1].Args = first[1].sq[1].Args

\* The same query was compiled twice against the static resolver whose names
\* are equal up to case, and one of its song names matches none of them exactly.
C6_Witness ==
    /\ BothGenerated
    /\ first[1].query = query
    /\ resolver.kind = "static"
    /\ \E a, b \in resolver.ByName : a[1] # b[1] /\ ToLower(a[1]) = ToLower(b[1])
    /\ irq[1].SegueChain # <<>>

\* C8: every date range the planner produces has start <= end.
C8_StartNotAfterEnd ==
    (Planned /\ irq[1].DateRange # <<>>)
    => NotAfter(irq[1].DateRange[1].Start, irq[1].DateRange[1].End)

\* A year range Y1-Y2 was planned.
C8_Witness ==
    /\ Planned
    /\ ast[1].kind = "ShowQuery"
    /\ ast[1].From # <<>>
    /\ ast[1].From[1].End # <<>>
    /\ irq[1].DateRange # <<>>

\* The leading digits of a DURATION literal and the unit after them.
DurationDigits(d) == SubSeq(d, 1, Cardinality({i \in DOMAIN d : IsDigit(d[i])}))
DurationUnit(d) == Str(ToLower(SubSeq(d, Len(DurationDigits(d)) + 1, Len(d))))

\* The seconds the duration rule gives a DURATION literal.
DurationSeconds(d) ==
    IF DurationUnit(d) \in {"min", "mins", "minute", "minutes"} THEN 60 * Atoi(DurationDigits(d))
    ELSE IF DurationUnit(d) \in {"sec", "secs", "second", "seconds"} THEN Atoi(DurationDigits(d))
    ELSE 0

\* The WITH conditions of a SONGS or PERFORMANCES query.
WithConditions == IF ast[1].With = <<>> THEN <<>> ELSE ast[1].With[1].Conditions

\* C9: a duration of N minutes, in any minute unit the lexer accepts, lowers
\* to 60*N seconds, a duration of N seconds, in any second unit, to N, and
\* only an empty or unrecognised unit to zero.
C9_DurationSeconds ==
    (Planned /\ ast[1].kind \in {"SongQuery", "PerformanceQuery"})
    => \A i \in DOMAIN WithConditions :
          WithConditions[i].kind = "LengthWithCondition"
          => irq[1].Conditions[i].Seconds = DurationSeconds(WithConditions[i].Duration)

\* A PERFORMANCES query with a LENGTH filter in minutes was planned.
C9_Witness ==
    /\ Planned
    /\ ast[1].kind = "PerformanceQuery"
    /\ \E i \in DOMAIN WithConditions :
          /\ WithConditions[i].kind = "LengthWithCondition"
          /\ DurationUnit(WithConditions[i].Duration) = "minutes"

\* The WHERE conditions of a SHOWS query.
WhereConditions == IF ast[1].Where = <<>> THEN <<>> ELSE ast[1].Where[1].Conditions

\* C10: a segue in first position is lifted to the segue chain, and every
\* other WHERE condition, whatever its kind and index, yields exactly one
\* entry of Conditions.
C10_OneEntryPerCondition ==
    (Planned /\ ast[1].kind = "ShowQuery" /\ WhereConditions # <<>>)
    => IF WhereConditions[1].kind = "SegueCondition"
       THEN /\ irq[1].SegueChain # <<>>
            /\ Len(irq[1].SegueChain[1].SongIDs) = Len(WhereConditions[1].Songs)
            /\ irq[1].SegueChain[1].Operators = WhereConditions[1].Operators
            /\ Len(irq[1].Conditions) = Len(WhereConditions) - 1
       ELSE /\ irq[1].SegueChain = <<>>
            /\ Len(irq[1].Conditions) = Len(WhereConditions)

\* A SHOWS query whose second condition is a segue was planned.
C10_Witness ==
    /\ Planned
    /\ ast[1].kind = "ShowQuery"
    /\ Len(WhereConditions) = 2
    /\ WhereConditions[1].kind # "SegueCondition"
    /\ WhereConditions[2].kind = "SegueCondition"

----------------------------------------------------------------------------
(* The generator on its own: Generate applied to a QueryIR of any shape.    *)

MaxChain == 3

GenOps == {"SegueOpSegue", "SegueOpBreak", "SegueOpTease"}

\* Chains of n songs with ids 11..(10+n) and at most n-1 operators.
GenChains ==
    {<<>>, <<[SongIDs |-> <<>>, Operators |-> <<>>]>>} \cup
    UNION {{<<[SongIDs |-> [i \in 1..n |-> 10 + i], Operators |-> ops]>>
            : ops \in UNION {[1..k -> GenOps] : k \in 0..(n - 1)}}
           : n \in 1..MaxChain}

GenDateRanges ==
    {<<>>, <<ResolvedDateRange(timeDate(1977, 1, 1, 0, 0, 0), timeDate(1980, 12, 31, 23, 59, 59))>>}

GenConditions ==
    {<<>>,
     <<[kind |-> "PositionConditionIR", Set |-> "Set2", Operator |-> "PosClosed", SongID |-> 7]>>,
     <<[kind |-> "PlayedConditionIR", SongID |-> 8]>>,
     <<[kind |-> "GuestConditionIR", Name |-> Runes("x")]>>,
     <<[kind |-> "LengthConditionIR", SongID |-> <<>>, Operator |-> "CompGTE", Seconds |-> 1200]>>,
     <<[kind |-> "LyricsConditionIR", Words |-> <<Runes("x"), Runes("y")>>, Operator |-> "OpOr"]>>,
     <<[kind |-> "PlayedConditionIR", SongID |-> 8],
       [kind |-> "PositionConditionIR", Set |-> "Encore", Operator |-> "PosEquals", SongID |-> 7]>>}

GenOrderBys ==
    {<<>>, <<[Field |-> Runes("DATE"), Desc |-> TRUE]>>, <<[Field |-> Runes("x?"), Desc |-> FALSE]>>}

GenLimits == {<<>>, <<5>>}

GenQueries ==
    {[QueryIR("QueryTypeShows") EXCEPT !.SegueChain = ch, !.DateRange = dr, !.Conditions = cs,
                                       !.OrderBy = ob, !.Limit = lim]
        : ch \in GenChains, dr \in GenDateRanges, cs \in GenConditions,
          ob \in GenOrderBys, lim \in GenLimits}
    \cup
    {[QueryIR(t) EXCEPT !.SongID = id, !.DateRange = dr, !.Conditions = cs,
                        !.OrderBy = ob, !.Limit = lim]
        : t \in {"QueryTypeSongs", "QueryTypePerformances"}, id \in {<<>>, <<9>>},
          dr \in GenDateRanges, cs \in GenConditions, ob \in GenOrderBys, lim \in GenLimits}
    \cup
    {[QueryIR(t) EXCEPT !.SingleDate = d]
        : t \in {"QueryTypeSetlist", "QueryType(4)"}, d \in {<<>>, <<timeDate(1977, 5, 8, 0, 0, 0)>>}}

InitGen ==
    /\ LexerOff
    /\ ImportOff
    /\ resolver = [kind |-> "none"]
    /\ ResolveOff
    /\ query = <<>>
    /\ run = 1
    /\ stage = "planned"
    /\ ast = <<>>
    /\ irq \in {<<q>> : q \in GenQueries}
    /\ sq = <<>>
    /\ err = <<>>
    /\ first = <<>>
    /\ trace = <<>>
    /\ result = <<>>
    /\ rs = <<>>

SpecGen == InitGen /\ [][ExecuteGenerate]_vars

\* C2: the SQL text of a generated query has as many ? placeholders as
\* the query has Args.
C2_PlaceholdersMatchArgs ==
    stage = "generated" => Count(sq[1].SQL, "?") = Len(sq[1].Args)

\* A query with a quoted ORDER BY field was generated.
C2_Witness ==
    /\ stage = "generated"
    /\ irq[1].OrderBy # <<>>
    /\ Str(irq[1].OrderBy[1].Field) = "x?"
    /\ irq[1].SegueChain = <<>>

\* The segue chain of the QueryIR being generated, and its length.
Chain == irq[1].SegueChain[1]
ChainLen == Len(Chain.SongIDs)

SegueGenerated ==
    /\ stage = "generated"
    /\ irq[1].Type = "QueryTypeShows"
    /\ irq[1].SegueChain # <<>>
    /\ ChainLen >= 2

\* The segue symbol of the i-th transition; a missing operator counts as >.
ChainSymbol(i) ==
    IF i > Len(Chain.Operators) THEN ">"
    ELSE CASE Chain.Operators[i] = "SegueOpBreak" -> ">>"
           [] Chain.Operators[i] = "SegueOpTease" -> "~>"
           [] OTHER -> ">"

\* The args a condition binds in a segue query.
ChainConditionArgs(c) ==
    CASE c.kind = "PositionConditionIR" ->
           <<ArgInt(IF c.Set = "Set1" THEN 1 ELSE IF c.Set = "Set2" THEN 2 ELSE 3), ArgInt(c.SongID)>>
      [] c.kind = "PlayedConditionIR" -> <<ArgInt(c.SongID)>>
      [] c.kind = "GuestConditionIR" ->
           <<ArgString(Str(c.Name)), ArgString("%" \o Str(c.Name) \o "%")>>
      [] OTHER -> <<>>

\* Two arg vectors hold the same values of the same types in the same order.
SameArgs(a, b) ==
    /\ Len(a) = Len(b)
    /\ \A i \in 1..Len(a) : a[i].k = b[i].k /\ a[i].v = b[i].v

\* C4: the SQL of a segue chain of n songs has the aliases p1..pn, n-1
\* adjacency joins (same show, same set, next position), n songs joins each
\* bound to a ? song id and n-1 segue_type = ? constraints; Args holds the
\* song ids, then the segue symbols, then the date-range and condition args,
\* then the limit.
C4_SegueSQLShape ==
    SegueGenerated
    => /\ \A i \in 1..ChainLen : Count(sq[1].SQL, "performances p" \o Itoa(i) \o " ") = 1
       /\ \A i \in (ChainLen + 1)..(MaxChain + 2) :
             Count(sq[1].SQL, "performances p" \o Itoa(i) \o " ") = 0
       /\ Count(sq[1].SQL, ".position - 1") = ChainLen - 1
       /\ \A i \in 1..(ChainLen - 1) :
             Count(sq[1].SQL, " ON p" \o Itoa(i) \o ".show_id = p" \o Itoa(i + 1)
                                \o ".show_id AND p" \o Itoa(i) \o ".set_number = p" \o Itoa(i + 1)
                                \o ".set_number AND p" \o Itoa(i) \o ".position = p" \o Itoa(i + 1)
                                \o ".position - 1") = 1
       /\ Count(sq[1].SQL, " JOIN songs s") = ChainLen
       /\ \A i \in 1..ChainLen :
             Count(sq[1].SQL, " JOIN songs s" \o Itoa(i) \o " ON p" \o Itoa(i) \o ".song_id = s"
                                \o Itoa(i) \o ".id AND s" \o Itoa(i) \o ".id = ?") = 1
       /\ Count(sq[1].SQL, ".segue_type = ?") = ChainLen - 1
       /\ \A i \in 1..(ChainLen - 1) :
             Count(sq[1].SQL, " AND p" \o Itoa(i) \o ".segue_type = ?") = 1
       /\ SameArgs(sq[1].Args,
             [i \in 1..ChainLen |-> ArgInt(Chain.SongIDs[i])]
               \o [i \in 1..(ChainLen - 1) |-> ArgString(ChainSymbol(i))]
               \o (IF irq[1].DateRange = <<>> THEN <<>>
                   ELSE <<ArgString("1977-01-01"), ArgString("1980-12-31")>>)
               \o Concat([i \in 1..Len(irq[1].Conditions) |-> ChainConditionArgs(irq[1].Conditions[i])])
               \o (IF irq[1].Limit = <<>> THEN <<>> ELSE <<ArgInt(irq[1].Limit[1])>>))

\* A chain of three songs with one operator missing was generated, with a
\* date range, two conditions and a limit.
C4_Witness ==
    /\ SegueGenerated
    /\ ChainLen = 3
    /\ Len(Chain.Operators) = 1
    /\ Chain.Operators[1] = "SegueOpTease"
    /\ irq[1].DateRange # <<>>
    /\ Len(irq[1].Conditions) = 2
    /\ irq[1].Limit # <<>>

----------------------------------------------------------------------------
(* The resolver on its own: Resolve against every small catalog.            *)

SongRows ==
    {[ID |-> 1, Name |-> Runes("Ab")], [ID |-> 2, Name |-> Runes("ab")],
     [ID |-> 3, Name |-> Runes("B")], [ID |-> 4, Name |-> Runes("C -")]}

AliasRows ==
    {[alias |-> Runes("ab"), song_id |-> 3], [alias |-> Runes("c"), song_id |-> 1]}

Catalogs ==
    {[kind |-> "db", songs |-> ss, aliases |-> {a \in al : \E r \in ss : r.ID = a.song_id}]
        : ss \in SUBSET SongRows, al \in SUBSET AliasRows}
    \cup
    {[kind |-> "static", ByName |-> {<<r.Name, r.ID>> : r \in ss}] : ss \in SUBSET SongRows}

LookupNames == {Runes(n) : n \in {"Ab", "ab", "AB", "B", "C", "c -", "D"}}

InitResolve ==
    /\ LexerOff
    /\ ImportOff
    /\ resolver \in Catalogs
    /\ ResolveOff
    /\ PipelineOff

\* One call of SongResolver.Resolve.
CallResolve ==
    /\ \E n \in LookupNames : \E x \in Resolve(resolver, n) :
          /\ lookup' = n
          /\ found' = <<x>>
    /\ UNCHANGED <<lexerVars, resolver, pipelineVars, importVars>>

SpecResolve == InitResolve /\ [][CallResolve]_vars

\* The ids of the songs of the catalog, by the rule that matches the name looked up.
CatalogSongs ==
    IF resolver.kind = "db" THEN {<<r.Name, r.ID>> : r \in resolver.songs} ELSE resolver.ByName
CatalogAliases ==
    IF resolver.kind = "db" THEN {<<a.alias, a.song_id>> : a \in resolver.aliases} ELSE {}

ExactIDs == {e[2] : e \in {e \in CatalogSongs : e[1] = lookup}}
FoldIDs == {e[2] : e \in {e \in CatalogSongs : ToLower(e[1]) = ToLower(lookup)}}
AliasIDs == {e[2] : e \in {e \in CatalogAliases : ToLower(e[1]) = ToLower(lookup)}}
TrimIDs ==
    IF resolver.kind # "db" THEN {}
    ELSE {e[2] : e \in {e \in CatalogSongs :
                  ToLower(Trim(e[1], {"-", " "})) = ToLower(Trim(lookup, {"-", " "}))}}

\* C5: Resolve returns the id matched by the highest rule that matches at
\* all: exact name, then case-insensitive name, then alias, then trimmed
\* name; it fails only when no rule matches.
C5_ResolvePrecedence ==
    found # <<>>
    => IF ExactIDs # {} THEN found[1].ok /\ found[1].v \in ExactIDs
       ELSE IF FoldIDs # {} THEN found[1].ok /\ found[1].v \in FoldIDs
       ELSE IF AliasIDs # {} THEN found[1].ok /\ found[1].v \in AliasIDs
       ELSE IF TrimIDs # {} THEN found[1].ok /\ found[1].v \in TrimIDs
       ELSE ~found[1].ok

\* A name was resolved against a database holding it exactly and in another case.
C5_Witness ==
    /\ found # <<>>
    /\ resolver.kind = "db"
    /\ ExactIDs # {}
    /\ FoldIDs # ExactIDs

----------------------------------------------------------------------------
(* Unresolved song names (planner.go wrapSongNotFound)                      *)

\* The song names a condition refers to, in the order they are written.
ConditionNames(c) ==
    CASE c.kind = "SegueCondition" -> [i \in 1..Len(c.Songs) |-> c.Songs[i].Name]
      [] c.kind \in {"PositionCondition", "PlayedCondition"} -> <<c.Song.Name>>
      [] c.kind = "LengthCondition" -> IF c.Song # <<>> THEN <<c.Song[1].Name>> ELSE <<>>
      [] OTHER -> <<>>

\* The song names the parsed query refers to.
QueryNames ==
    CASE ast[1].kind = "ShowQuery" ->
           IF ast[1].Where = <<>> THEN <<>>
           ELSE Concat([i \in 1..Len(ast[1].Where[1].Conditions) |->
                           ConditionNames(ast[1].Where[1].Conditions[i])])
      [] ast[1].kind = "PerformanceQuery" -> <<ast[1].Song.Name>>
      [] OTHER -> <<>>

Unresolved == {n \in Range(QueryNames) : \A x \in Resolve(resolver, n) : ~x.ok}

\* Plan has returned, with an IR or with an error.
PlanReturned == ast # <<>> /\ stage # "parsed"

\* C11: when a song name of the query does not resolve, Plan returns no IR
\* and a QueryError of kind SongNotFound whose message is an unresolved
\* name and whose suggestions are Suggest(name); the hint is set exactly
\* when there is no suggestion.
C11_SongNotFound ==
    (PlanReturned /\ Unresolved # {})
    => /\ irq = <<>>
       /\ stage = "failed"
       /\ err[1].type = "QueryError"
       /\ err[1].Type = "ErrSongNotFound"
       /\ err[1].Message \in Unresolved
       /\ err[1].Suggestions \in Suggest(resolver, err[1].Message)
       /\ (err[1].Hint = emptyDatabaseHint) <=> (err[1].Suggestions = <<>>)
       /\ (err[1].Hint = "") <=> (err[1].Suggestions # <<>>)

\* Plan returned for a query whose second condition is a segue with an unknown song.
C11_Witness ==
    /\ PlanReturned
    /\ ast[1].kind = "ShowQuery"
    /\ ast[1].Where # <<>>
    /\ Len(ast[1].Where[1].Conditions) = 2
    /\ ast[1].Where[1].Conditions[2].kind = "SegueCondition"
    /\ ast[1].Where[1].Conditions[1].kind = "GuestCondition"
    /\ Unresolved # {}

----------------------------------------------------------------------------
(* Structural violations of the generator's input                           *)

QueryTypes == {"QueryTypeShows", "QueryTypeSongs", "QueryTypePerformances", "QueryTypeSetlist"}

ShortChain == irq[1].SegueChain # <<>> /\ Len(irq[1].SegueChain[1].SongIDs) < 2
NoSingleDate == irq[1].Type = "QueryTypeSetlist" /\ irq[1].SingleDate = <<>>
NoSongID == irq[1].Type = "QueryTypePerformances" /\ irq[1].SongID = <<>>
UnknownType == irq[1].Type \notin QueryTypes

\* Generate has been called and is over.
GenerateOver == irq # <<>> /\ stage \in {"generated", "failed", "panicked"}

\* C12: Generate returns an error (it neither panics nor returns SQL) when
\* the segue chain has fewer than two song ids, when a Setlist IR has no
\* single date, when a Performances IR has no song id, and when the query
\* type is unknown.
C12_StructuralErrors ==
    (GenerateOver /\ (ShortChain \/ NoSingleDate \/ NoSongID \/ UnknownType))
    => stage = "failed"

\* Generate is over for an IR whose segue chain has one song id.
C12_Witness ==
    /\ GenerateOver
    /\ irq[1].SegueChain # <<>>
    /\ Len(irq[1].SegueChain[1].SongIDs) = 1

----------------------------------------------------------------------------
(* The order of the stages of Execute                                       *)

Stages == <<"parse", "plan", "generate", "execute", "map">>

\* The number of ExecuteQuery calls of the current run.
Calls == Cardinality({i \in DOMAIN trace : trace[i] = "execute"})

\* C13: the stages of a run of Execute occur in the order parse, plan,
\* generate, execute, map; ExecuteQuery is called at most once, only after
\* parsing, planning and generating succeeded, and not again after it
\* failed; when a stage fails no later stage runs and the error is returned.
C13_StageOrder ==
    /\ Len(trace) <= Len(Stages)
    /\ trace = SubSeq(Stages, 1, Len(trace))
    /\ Calls <= 1
    /\ Calls = 1 => ast # <<>> /\ irq # <<>> /\ sq # <<>>
    /\ stage = "failed" => err # <<>> /\ result = <<>>
    /\ (stage = "failed" /\ sq = <<>>) => Calls = 0
    /\ stage = "done" => trace = Stages /\ result # <<>> /\ err = <<>>

\* The data source returned an error to a run that had parsed, planned and generated.
C13_Witness ==
    /\ stage = "failed"
    /\ sq # <<>>
    /\ Calls = 1
    /\ run = 2
    /\ first[1].stage = "done"

----------------------------------------------------------------------------
(* PeekToken and NextToken interleaved                                      *)

\* The i-th token of the input when only NextToken is called: the tokens up
\* to EOF, then EOF again.
TokenAt(i) ==
    IF i <= Len(Tokens(lx.l.runes)) THEN Tokens(lx.l.runes)[i]
    ELSE Tokens(lx.l.runes)[Len(Tokens(lx.l.runes))]

----------------------------------------------------------------------------
(* The parser on its own: Parse on well-formed queries, on their prefixes,  *)
(* and on queries with an illegal piece put in or over one of their words.  *)

BaseQueries ==
    {<<"SHOWS", "FROM", "1977", "WHERE", "\"Ab\"", ">", "\"B\"", "AND", "GUEST", "\"x\"",
       "ORDER", "BY", "DATE", "DESC", "LIMIT", "5", "AS", "json", ";">>,
     <<"SHOWS", "WHERE", "SET1", "OPENED", "\"B\"", "OR", "NOT", "\"ab\"", "AND", "LENGTH", ">", "20min">>,
     <<"SONGS", "WITH", "LYRICS", "(", "\"x\"", ",", "\"y\"", ")", "WRITTEN", "1977", "ORDER", "BY", "NAME">>,
     <<"PERFORMANCES", "OF", "\"Ab\"", "FROM", "PRIMAL", "WITH", "LENGTH", ">", "20min", "LIMIT", "5">>,
     <<"SETLIST", "FOR", "5", "/", "8", "/", "77">>,
     <<"SHOWS", "ORDER", "BY">>,
     <<"SHOWS", "AS">>}

\* An unexpected character, and a string with no closing quote.
IllegalPieces == {"#", "\"x"}

ParseInputs ==
    {Runes(Join(ws, " ")) :
        ws \in UNION {
            {SubSeq(b, 1, k) : k \in 0..Len(b)}
              \cup {SubSeq(b, 1, k) \o <<x>> \o SubSeq(b, k + 1, Len(b)) : k \in 0..Len(b), x \in IllegalPieces}
              \cup {SubSeq(b, 1, k - 1) \o <<x>> \o SubSeq(b, k + 1, Len(b)) : k \in 1..Len(b), x \in IllegalPieces}
            : b \in BaseQueries}}
      \cup {Runes(" "), Runes("-- shows")}

InitParse ==
    /\ LexerOff
    /\ ImportOff
    /\ resolver = [kind |-> "none"]
    /\ ResolveOff
    /\ query \in ParseInputs
    /\ run = 1
    /\ stage = "start"
    /\ ast = <<>>
    /\ irq = <<>>
    /\ sq = <<>>
    /\ err = <<>>
    /\ first = <<>>
    /\ trace = <<>>
    /\ result = <<>>
    /\ rs = <<>>

\* A caller builds a parser with one of the two constructors and calls Parse.
CallParse ==
    /\ stage = "start"
    /\ \E ctor \in {"NewFromString", "NewFromReader"} :
          LET r == Parse(IF ctor = "NewFromString" THEN NewFromString(query)
                         ELSE NewFromReader(query))
          IN /\ IF r.ok
                THEN ast' = <<r.v>> /\ stage' = "parsed" /\ err' = err
                ELSE ast' = ast /\ stage' = "failed" /\ err' = r.err
             /\ trace' = <<ctor, "Parse">>
    /\ UNCHANGED <<lexerVars, resolveVars, query, run, irq, sq, first, result, rs, importVars>>

SpecParse == InitParse /\ [][CallParse]_vars

HasIllegal == \E i \in DOMAIN Tokens(query) : Tokens(query)[i].Type = "ILLEGAL"

\* C15: when the lexer emits an ILLEGAL token anywhere in the query, Parse
\* returns a ParseError and no AST.
C15_IllegalRejected ==
    (stage # "start" /\ HasIllegal)
    => stage = "failed" /\ ast = <<>> /\ err[1].type = "ParseError"

\* Parse returned for a query with an ILLEGAL token right after AS.
C15_Witness ==
    /\ stage # "start"
    /\ \E i \in DOMAIN Tokens(query) :
          /\ i > 1
          /\ Tokens(query)[i].Type = "ILLEGAL"
          /\ Tokens(query)[i - 1].Type = "AS"

\* C16: every parse error Parse returns carries the position of the offending
\* token (line >= 1), a non-empty message and the original query string,
\* whichever constructor built the parser.
C16_ParseErrorComplete ==
    stage = "failed"
    => /\ err[1].type = "ParseError"
       /\ err[1].Pos.Line >= 1
       /\ err[1].Message # ""
       /\ err[1].Query = query

\* Parse returned an error for a query with no tokens, and for a parser built
\* from a reader.
C16_Witness ==
    /\ stage = "failed"
    /\ \/ err[1].Message = "empty query"
       \/ trace[1] = "NewFromReader"

----------------------------------------------------------------------------
(* Numbers and durations                                                    *)

\* The index after the run of digits, of spaces, of letters that starts at i.
RECURSIVE DigitsEnd(_, _)
DigitsEnd(runes, i) ==
    IF i <= Len(runes) /\ IsDigit(runes[i]) THEN DigitsEnd(runes, i + 1) ELSE i

RECURSIVE SpacesEnd(_, _)
SpacesEnd(runes, i) ==
    IF i <= Len(runes) /\ runes[i] = " " THEN SpacesEnd(runes, i + 1) ELSE i

RECURSIVE LettersEnd(_, _)
LettersEnd(runes, i) ==
    IF i <= Len(runes) /\ IsLetter(runes[i]) THEN LettersEnd(runes, i + 1) ELSE i

UnitWords == {"min", "mins", "minute", "minutes", "sec", "secs", "second", "seconds"}

\* The token the language description gives to the run of digits at index i:
\* a DURATION when the word after the digits (and any spaces) is a unit word,
\* whatever its letter case, and a NUMBER otherwise.
NumberTokenAt(runes, i) ==
    LET e == DigitsEnd(runes, i)
        w == SpacesEnd(runes, e)
        f == LettersEnd(runes, w)
        digits == SubSeq(runes, i, e - 1)
        word == SubSeq(runes, w, f - 1)
    IN IF Str(ToLower(word)) \in UnitWords
       THEN [Type |-> "DURATION", Literal |-> digits \o word]
       ELSE [Type |-> "NUMBER", Literal |-> digits]

NumberTokens ==
    {i \in DOMAIN out : /\ out[i].Pos.Offset < Len(lx.l.runes)
                        /\ IsDigit(lx.l.runes[out[i].Pos.Offset + 1])}

\* C17: a run of digits yields a DURATION token, whose literal is the digits
\* followed by the unit word, exactly when a unit word follows the digits
\* (optionally after spaces); otherwise it yields a NUMBER token whose literal
\* is the digits.
C17_NumberOrDuration ==
    \A i \in NumberTokens :
        LET want == NumberTokenAt(lx.l.runes, out[i].Pos.Offset + 1)
        IN out[i].Type = want.Type /\ out[i].Literal = want.Literal

\* The lexer returned a DURATION for digits, spaces and a unit word, and a
\* NUMBER for digits that no unit word follows.
C17_Witness ==
    /\ \E i \in NumberTokens : out[i].Type = "NUMBER"
    /\ \E i \in NumberTokens :
          /\ out[i].Type = "DURATION"
          /\ SpacesEnd(lx.l.runes, DigitsEnd(lx.l.runes, out[i].Pos.Offset + 1))
                > DigitsEnd(lx.l.runes, out[i].Pos.Offset + 1)

----------------------------------------------------------------------------
(* Keyword case                                                             *)

\* The second run's query is the first run's, which the parser accepted,
\* with its keywords in another letter case.
KeywordsRecased ==
    /\ run = 2
    /\ first[1].ast # <<>>
    /\ query # first[1].query
    /\ query = relabel(first[1].query, FALSE, "keywords")

\* C18: keywords are case-insensitive. A query the parser accepts is still
\* accepted after the letter case of its keywords (ORDER BY fields included)
\* is changed, and with the same song ids it generates the same SQL text and
\* args.
C18_KeywordCase ==
    KeywordsRecased
    => /\ stage # "start" => ast # <<>>
       /\ (sq # <<>> /\ first[1].sq # <<>> /\ SongIDsOf(first[1].irq[1]) = SongIDsOf(irq[1]))
          => sq[1].SQL = first[1].sq[1].SQL /\ SameArgs(sq[1].Args, first[1].sq[1].Args)

\* Parse returned for a query whose ORDER BY field keyword is in lower case.
C18_Witness ==
    /\ KeywordsRecased
    /\ stage # "start"
    /\ first[1].ast[1].OrderBy # <<>>
    /\ \E i \in DOMAIN Tokens(query) :
          /\ i > 1
          /\ Tokens(query)[i - 1].Type = "BY"
          /\ Tokens(query)[i].Type # "STRING"

----------------------------------------------------------------------------
(* Two-digit years                                                          *)

\* The FROM or WRITTEN date range of a parsed query, if it has one.
AstDateRange(a) ==
    IF a.kind \in {"ShowQuery", "PerformanceQuery"} THEN a.From
    ELSE IF a.kind = "SongQuery" THEN a.Written
    ELSE <<>>

\* The year the language reference gives to a year written in the query.
Century(y) == IF y < 100 THEN 1900 + y ELSE y

\* A query whose range starts with a two-digit year was planned.
TwoDigitYearPlanned ==
    /\ irq # <<>>
    /\ AstDateRange(ast[1]) # <<>>
    /\ AstDateRange(ast[1])[1].Start # <<>>
    /\ AstDateRange(ast[1])[1].Start[1].Year < 100

\* C19: in a FROM or WRITTEN date range a two-digit year is expanded to 19xx:
\* the planned range starts on 1 January 19xx and ends on 31 December of the
\* (expanded) end year, or of 19xx when no end year is given.
C19_TwoDigitYear ==
    TwoDigitYearPlanned
    => LET dr == AstDateRange(ast[1])[1]
           start == irq[1].DateRange[1].Start
           end == irq[1].DateRange[1].End
       IN /\ irq[1].DateRange # <<>>
          /\ <<start.Year, start.Month, start.Day>> = <<Century(dr.Start[1].Year), 1, 1>>
          /\ <<end.Year, end.Month, end.Day>>
               = <<Century(IF dr.End # <<>> THEN dr.End[1].Year ELSE dr.Start[1].Year), 12, 31>>

\* SHOWS FROM 77-80 was planned.
C19_Witness ==
    /\ TwoDigitYearPlanned
    /\ ast[1].kind = "ShowQuery"
    /\ AstDateRange(ast[1])[1].End # <<>>
    /\ AstDateRange(ast[1])[1].End[1].Year < 100

----------------------------------------------------------------------------
(* NOT                                                                      *)

\* The first run compiled a query with NOT "S" and the second run compiled
\* the same query with PLAYED "S" in its place.
NotThenPlayed ==
    /\ run = 2
    /\ query # first[1].query
    /\ query = Unnegated(first[1].query, FALSE)
    /\ sq # <<>>
    /\ first[1].sq # <<>>

\* C20: NOT negates a condition, so the SQL generated for SHOWS WHERE NOT "S"
\* is a different filter from the SQL generated for SHOWS WHERE PLAYED "S".
C20_NotNegates ==
    NotThenPlayed
    => ~(/\ sq[1].SQL = first[1].sq[1].SQL
         /\ SameArgs(sq[1].Args, first[1].sq[1].Args))

\* SHOWS WHERE NOT "ab" and SHOWS WHERE PLAYED "ab" were both compiled.
C20_Witness ==
    /\ NotThenPlayed
    /\ Len(first[1].irq[1].Conditions) = 1
    /\ first[1].ast[1].Where[1].Conditions[1].kind = "PlayedCondition"
    /\ first[1].ast[1].Where[1].Conditions[1].Song.Negated

----------------------------------------------------------------------------
(* SETLIST                                                                  *)

\* The query is SETLIST FOR "<string>" and the parser accepted it.
SetlistForString ==
    /\ ast # <<>>
    /\ ast[1].kind = "SetlistQuery"
    /\ Len(Tokens(query)) >= 3
    /\ Tokens(query)[3].Type = "STRING"

\* C21: for SETLIST FOR "<string>" the parser stores the string in the date's
\* season, the planner passes no single date in the IR, and execution fails
\* at SQL generation, so no query reaches the data source.
C21_SetlistForString ==
    SetlistForString
    => /\ ast[1].Date[1].Season = Tokens(query)[3].Literal
       /\ irq # <<>> => irq[1].SingleDate = <<>>
       /\ sq = <<>>
       /\ \A i \in DOMAIN trace : trace[i] # "execute"
       /\ stage \in {"parsed", "planned", "failed"}

\* SETLIST FOR "<string>" was parsed and planned.
C21_Witness ==
    /\ SetlistForString
    /\ irq # <<>>

\* The query is SETLIST FOR M/D/YY with a month outside 1..12 or a day
\* outside 1..31.
SetlistDateOutOfRange ==
    /\ HasPrefix(query, <<"S", "E", "T", "L", "I", "S", "T">>)
    /\ Len(Tokens(query)) >= 7
    /\ [i \in 1..7 |-> Tokens(query)[i].Type]
         = <<"SETLIST", "FOR", "NUMBER", "SLASH", "NUMBER", "SLASH", "NUMBER">>
    /\ \/ Atoi(Tokens(query)[3].Literal) \notin 1..12
       \/ Atoi(Tokens(query)[5].Literal) \notin 1..31

\* C22: a SETLIST FOR date in M/D/YY form whose month or day is out of range
\* is rejected with a parse error; no IR, no SQL and no data source call
\* results from it.
C22_InvalidDateRejected ==
    (SetlistDateOutOfRange /\ stage # "start")
    => /\ stage = "failed"
       /\ err[1].type = "ParseError"
       /\ ast = <<>>
       /\ irq = <<>>
       /\ sq = <<>>
       /\ \A i \in DOMAIN trace : trace[i] # "execute"

\* Parse returned for SETLIST FOR 13/32/77.
C22_Witness ==
    /\ SetlistDateOutOfRange
    /\ stage # "start"
    /\ Atoi(Tokens(query)[3].Literal) = 13
    /\ Atoi(Tokens(query)[5].Literal) = 32

\* C23: the result of a SETLIST query carries the requested date. For every
\* result set the data source returns, one with no rows included, the
\* setlist's date is the single date of the IR, and with at least one row the
\* setlist's show id is the show id of the first row.
C23_SetlistCarriesDate ==
    (stage = "done" /\ result[1].Type = "ResultSetlist")
    => /\ result[1].Setlist[1].Date = irq[1].SingleDate[1]
       /\ Len(rs[1]) >= 1 => result[1].Setlist[1].ShowID = rs[1][1].show_id

\* A SETLIST query returned a Result for a result set with no rows, and for
\* one with rows of two shows.
C23_Witness ==
    /\ stage = "done"
    /\ result[1].Type = "ResultSetlist"
    /\ \/ Len(rs[1]) = 0
       \/ Len(rs[1]) = 2 /\ rs[1][1].show_id # rs[1][2].show_id

----------------------------------------------------------------------------
(* The date expander on its own: Expand on a year, then on the range from   *)
(* that year to a later one; Expand on an era alias.                        *)

MaxSpan == 3

ExpandYears == {0, 1, 77, 99, 1965, 1969, 1972, 1977, 1980, 1995, 1999, 2000, 9999}

EraAliases ==
    {"EraPrimal", "EraEurope72", "EraWallOfSound", "EraHiatus", "EraBrent", "EraVince"}

ExpandInputs ==
    {[Start |-> <<Date(y, 0, 0, <<>>)>>, End |-> <<>>, Era |-> <<>>] : y \in ExpandYears}
      \cup {[Start |-> <<>>, End |-> <<>>, Era |-> <<e>>] : e \in EraAliases}

InitExpand ==
    /\ LexerOff
    /\ ImportOff
    /\ resolver = [kind |-> "none"]
    /\ ResolveOff
    /\ query = <<>>
    /\ run = 1
    /\ stage = "start"
    /\ ast \in {<<dr>> : dr \in ExpandInputs}
    /\ irq = <<>>
    /\ sq = <<>>
    /\ err = <<>>
    /\ first = <<>>
    /\ trace = <<>>
    /\ result = <<>>
    /\ rs = <<>>

\* One call of Expand on the date range in ast; irq takes the resolved range.
CallExpand ==
    /\ stage = "start"
    /\ irq' = Expand(ast)
    /\ stage' = "expanded"
    /\ UNCHANGED <<lexerVars, resolveVars, importVars, query, run, ast, sq, err, first, trace,
                   result, rs>>

\* The caller goes on with the range from the same year to a later one.
WidenRange ==
    /\ run = 1
    /\ stage = "expanded"
    /\ ast[1].Start # <<>>
    /\ \E k \in 0..MaxSpan :
          ast' = <<[ast[1] EXCEPT !.End = <<Date(ast[1].Start[1].Year + k, 0, 0, <<>>)>>]>>
    /\ first' = <<[ast |-> ast, irq |-> irq]>>
    /\ run' = 2
    /\ stage' = "start"
    /\ irq' = <<>>
    /\ UNCHANGED <<lexerVars, resolveVars, importVars, query, sq, err, trace, result, rs>>

NextExpand == CallExpand \/ WidenRange

SpecExpand == InitExpand /\ [][NextExpand]_vars

\* Both calls of Expand have returned.
BothExpanded == run = 2 /\ stage = "expanded"

\* C24: date expansion is monotonic. expand(Y) is Y-01-01T00:00:00 to
\* Y-12-31T23:59:59, expand(Y..Y+k) is Y-01-01T00:00:00 to (Y+k)-12-31T23:59:59,
\* so the first interval lies within the second for every k >= 0; and every
\* era alias expands to an interval with start <= end.
C24_ExpandMonotonic ==
    /\ BothExpanded
       => LET y == ast[1].Start[1].Year
              y2 == ast[1].End[1].Year
              one == first[1].irq[1]
              range == irq[1]
          IN /\ one = ResolvedDateRange(timeDate(y, 1, 1, 0, 0, 0), timeDate(y, 12, 31, 23, 59, 59))
             /\ range = ResolvedDateRange(timeDate(y, 1, 1, 0, 0, 0), timeDate(y2, 12, 31, 23, 59, 59))
             /\ NotAfter(range.Start, one.Start)
             /\ NotAfter(one.End, range.End)
    /\ (stage = "expanded" /\ ast[1].Era # <<>>)
       => irq # <<>> /\ NotAfter(irq[1].Start, irq[1].End)

\* Expand returned for a year and for the range from that year to a later
\* one.
C24_Witness ==
    /\ BothExpanded
    /\ ast[1].End[1].Year > ast[1].Start[1].Year

----------------------------------------------------------------------------
(* The canonical importer (internal/import/canonical): WriteShows           *)
(*                                                                          *)
(* The database is a record of tables, each the sequence of its rows in     *)
(* insertion order (song_aliases: a set, its key being the alias).          *)

\* strings.Split(d, "-"): the parts of d from index i on, part being the one
\* read so far.
RECURSIVE splitDash(_, _, _)
splitDash(d, i, part) ==
    IF i > Len(d) THEN <<part>>
    ELSE IF d[i] = "-" THEN <<part>> \o splitDash(d, i + 1, <<>>)
    ELSE splitDash(d, i + 1, Append(part, d[i]))

normalizeDate(date) ==
    LET d == TrimSpace(date)
        parts == splitDash(d, 1, <<>>)
    IN IF Len(d) = 10 /\ d[5] = "-" /\ d[8] = "-" THEN d
       ELSE IF Len(parts) # 3 THEN <<>>
       ELSE parts[3] \o <<"-">> \o parts[2] \o <<"-">> \o parts[1]

venueKey(v) == v.Name \o <<"\t">> \o v.City \o <<"\t">> \o v.State \o <<"\t">> \o v.Country

RECURSIVE trimTrailingSegue(_)
trimTrailingSegue(s) ==
    IF HasSuffix(s, <<"-">>) \/ HasSuffix(s, <<" ", "-">>)
    THEN trimTrailingSegue(TrimSpace(TrimSuffix(TrimSuffix(s, <<" ", "-">>), <<"-">>)))
    ELSE s

\* showExists: a show of that date at a venue of that name and place.
showExists(db, dateStr, v) ==
    \E i \in DOMAIN db.shows : \E j \in DOMAIN db.venues :
        /\ db.shows[i].venue_id = db.venues[j].id
        /\ db.shows[i].date = dateStr
        /\ db.venues[j].name = v.Name
        /\ db.venues[j].city = v.City
        /\ db.venues[j].state = v.State
        /\ db.venues[j].country = v.Country

\* WriteShows line 77: SELECT 1 FROM shows WHERE date = ? AND venue_id = ?
showAtVenue(db, dateStr, venueID) ==
    \E i \in DOMAIN db.shows : db.shows[i].date = dateStr /\ db.shows[i].venue_id = venueID

\* loadSongByName: the map from song name or alias to song id, as a set of
\* <<name, id>> pairs; a song name comes before an alias of the same text.
\* (Song names are unique in the databases considered.)
loadSongByName(db) ==
    {<<db.songs[i].name, db.songs[i].id>> : i \in DOMAIN db.songs}
      \cup {<<a.alias, a.song_id>> :
              a \in {x \in db.song_aliases : \A i \in DOMAIN db.songs : db.songs[i].name # x.alias}}

\* maxID: SELECT MAX(id) FROM table, 0 for an empty table.
maxID(rows) ==
    IF rows = <<>> THEN 0
    ELSE CHOOSE n \in {rows[i].id : i \in DOMAIN rows} : \A i \in DOMAIN rows : rows[i].id <= n

\* songByName[name], ok
mapHas(songByName, name) == \E e \in songByName : e[1] = name
mapGet(songByName, name) == (CHOOSE e \in songByName : e[1] = name)[2]
mapPut(songByName, name, id) == {e \in songByName : e[1] # name} \cup {<<name, id>>}

\* resolveSong: [id, ok, alias] with alias the optional row inserted into
\* song_aliases, and songByName the map after the call.
resolveSong(rawName, songByName) ==
    LET trimmed == trimTrailingSegue(rawName)
    IN IF mapHas(songByName, rawName)
       THEN [id |-> mapGet(songByName, rawName), ok |-> TRUE, alias |-> <<>>,
             songByName |-> songByName]
       ELSE IF trimmed # rawName /\ mapHas(songByName, trimmed)
       THEN [id |-> mapGet(songByName, trimmed), ok |-> TRUE,
             alias |-> <<[alias |-> rawName, song_id |-> mapGet(songByName, trimmed)]>>,
             songByName |-> mapPut(songByName, rawName, mapGet(songByName, trimmed))]
       ELSE [id |-> 0, ok |-> FALSE, alias |-> <<>>, songByName |-> songByName]

\* INSERT OR IGNORE INTO song_aliases: the alias is the key.
insertAlias(aliases, row) ==
    IF row = <<>> \/ \E a \in aliases : a.alias = row[1].alias THEN aliases
    ELSE aliases \cup {row[1]}

\* The iterations of the loops over s.Sets and set.Songs (lines 89-128) from
\* set n on, in order, each with the values the loop body computes from the
\* loop counters.
RECURSIVE iterations(_, _)
iterations(sets, n) ==
    IF n > Len(sets) THEN <<>>
    ELSE [j \in DOMAIN sets[n].Songs |->
            [song      |-> sets[n].Songs[j],
             setNumber |-> IF n > 3 THEN 3 ELSE n,
             position  |-> j,
             isOpener  |-> IF n = 1 /\ j = 1 THEN 1 ELSE 0,
             isCloser  |-> IF j = Len(sets[n].Songs) THEN 1 ELSE 0]]
         \o iterations(sets, n + 1)

\* len(songByName) - songsBefore
songsDelta(m) == Cardinality(m.songByName) - m.songsBefore

\* A return of WriteShows: the call ends and its results are recorded.
returns(m, showsAdded, songsAdded, e) ==
    [m EXCEPT !.pc = "returned",
              !.rets = Append(@, [showsAdded |-> showsAdded, songsAdded |-> songsAdded, err |-> e])]

\* WriteShows lines 42-48: the locals of a call.
enter(m) ==
    [m EXCEPT !.pc = "shows", !.calls = @ + 1, !.i = 1, !.j = 1, !.showID = 0,
              !.before = m.db,
              !.venueByKey = {},
              !.songByName = loadSongByName(m.db),
              !.next = [venue |-> maxID(m.db.venues) + 1, show |-> maxID(m.db.shows) + 1,
                        song |-> maxID(m.db.songs) + 1, perf |-> maxID(m.db.performances) + 1],
              !.songsBefore = Cardinality(loadSongByName(m.db)),
              !.showsAdded = 0]

\* WriteShows lines 51-88: one iteration of the loop over shows up to the
\* loops over its sets; fail names the statement that fails, if any.
importShow(m, fail) ==
    LET s == m.shows[m.i]
        dateStr == normalizeDate(s.Date)
        vkey == venueKey(s.Venue)
        known == mapHas(m.venueByKey, vkey)
        venueID == IF known THEN mapGet(m.venueByKey, vkey) ELSE m.next.venue
        mV == IF known THEN m
              ELSE [m EXCEPT !.db.venues = Append(@, [id |-> m.next.venue, name |-> s.Venue.Name,
                                                       city |-> s.Venue.City, state |-> s.Venue.State,
                                                       country |-> s.Venue.Country]),
                             !.venueByKey = mapPut(@, vkey, m.next.venue),
                             !.next.venue = @ + 1]
    IN IF fail = "ctx.Done" THEN returns(m, m.showsAdded, songsDelta(m), "context canceled")
       ELSE IF dateStr = <<>> THEN [m EXCEPT !.i = @ + 1]
       ELSE IF showExists(m.db, dateStr, s.Venue) THEN [m EXCEPT !.i = @ + 1]
       ELSE IF ~known /\ fail = "venues" THEN returns(m, m.showsAdded, songsDelta(m), "exec")
       ELSE IF showAtVenue(mV.db, dateStr, venueID) THEN [mV EXCEPT !.i = @ + 1]
       ELSE IF fail = "shows" THEN returns(mV, mV.showsAdded, 0, "exec")
       ELSE IF iterations(s.Sets, 1) = <<>>
       THEN [mV EXCEPT !.db.shows = Append(@, [id |-> m.next.show, date |-> dateStr, venue_id |-> venueID]),
                       !.showID = m.next.show, !.next.show = @ + 1, !.showsAdded = @ + 1,
                       !.i = @ + 1]
       ELSE [mV EXCEPT !.db.shows = Append(@, [id |-> m.next.show, date |-> dateStr, venue_id |-> venueID]),
                       !.showID = m.next.show, !.next.show = @ + 1, !.showsAdded = @ + 1,
                       !.pc = "songs", !.j = 1]

\* WriteShows lines 96-127: one iteration of the loop over the songs of a set.
importSong(m, fail) ==
    LET its == iterations(m.shows[m.i].Sets, 1)
        it == its[m.j]
        rawName == TrimSpace(it.song.Name)
        r == resolveSong(rawName, m.songByName)
        mR == [m EXCEPT !.songByName = r.songByName,
                        !.db.song_aliases = insertAlias(@, r.alias)]
        songID == IF r.ok THEN r.id ELSE m.next.song
        mS == IF r.ok THEN mR
              ELSE [mR EXCEPT !.db.songs = Append(@, [id |-> m.next.song, name |-> rawName]),
                              !.songByName = mapPut(@, rawName, m.next.song),
                              !.next.song = @ + 1]
        segueType == IF it.song.SegueBefore THEN ">" ELSE ""
        mP == [mS EXCEPT !.db.performances =
                            Append(@, [id |-> m.next.perf, show_id |-> m.showID, song_id |-> songID,
                                       set_number |-> it.setNumber, position |-> it.position,
                                       segue_type |-> segueType,
                                       is_opener |-> it.isOpener, is_closer |-> it.isCloser]),
                         !.next.perf = @ + 1]
    IN IF ~r.ok /\ fail = "songs" THEN returns(mR, mR.showsAdded, songsDelta(mR), "exec")
       ELSE IF fail = "performances" THEN returns(mS, mS.showsAdded, songsDelta(mS), "exec")
       ELSE IF m.j < Len(its) THEN [mP EXCEPT !.j = @ + 1]
       ELSE [mP EXCEPT !.pc = "shows", !.i = @ + 1]

\* The setlists of the import: at most MaxSongs songs in a set, a show of at
\* most two sets, the importer called at most MaxCalls times on one input.
MaxSongs == 2
MaxCalls == 2

SongNames == {Runes("A"), Runes("A-"), Runes("B")}
SongsInSet == [Name : SongNames, SegueBefore : BOOLEAN]
ImportSets == UNION {[1..n -> SongsInSet] : n \in 1..MaxSongs}
Winterland == [Name |-> Runes("W"), City |-> Runes("SF"), State |-> Runes("CA"), Country |-> Runes("US")]
Barton == [Name |-> Runes("B"), City |-> Runes("I"), State |-> Runes("NY"), Country |-> Runes("US")]

ImportShows ==
    {[Date |-> Runes(d), Venue |-> Winterland, Sets |-> <<[Songs |-> songs]>>] :
        d \in {"1977-05-08", "08-05-1977"}, songs \in ImportSets}
      \cup {[Date |-> Runes(d), Venue |-> Barton, Sets |-> sets] :
              d \in {"1977-05-08", " 1977-05-09 ", "May 8"},
              sets \in {<<>>, <<[Songs |-> <<>>]>>,
                        <<[Songs |-> <<[Name |-> Runes(" B "), SegueBefore |-> FALSE]>>],
                          [Songs |-> <<>>],
                          [Songs |-> <<[Name |-> Runes("A -"), SegueBefore |-> TRUE]>>]>>}}

ImportInputs ==
    {<<a>> : a \in ImportShows}
      \cup {<<a, b>> : a \in {x \in ImportShows : x.Venue = Barton}, b \in ImportShows}

\* The database before the first import: the song A, no shows.
SeedDB ==
    [venues |-> <<>>, shows |-> <<>>, songs |-> <<[id |-> 1, name |-> Runes("A")]>>,
     song_aliases |-> {}, performances |-> <<>>]

InitImport ==
    /\ LexerOff
    /\ resolver = [kind |-> "none"]
    /\ ResolveOff
    /\ PipelineOff
    /\ \E shows \in ImportInputs :
          imp = [on |-> TRUE, shows |-> shows, db |-> SeedDB, before |-> SeedDB,
                 pc |-> "idle", calls |-> 0, rets |-> <<>>, i |-> 1, j |-> 1, showID |-> 0,
                 venueByKey |-> {}, songByName |-> {},
                 next |-> [venue |-> 1, show |-> 1, song |-> 1, perf |-> 1],
                 songsBefore |-> 0, showsAdded |-> 0]

\* A call of WriteShows(ctx, db, shows), the first or a later one with the
\* same shows.
CallWriteShows ==
    /\ imp.on /\ imp.pc \in {"idle", "returned"} /\ imp.calls < MaxCalls
    /\ imp' = enter(imp)
    /\ UNCHANGED <<lexerVars, resolveVars, pipelineVars>>

ImportShow ==
    /\ imp.on /\ imp.pc = "shows" /\ imp.i <= Len(imp.shows)
    /\ \E fail \in {"", "ctx.Done", "venues", "shows"} : imp' = importShow(imp, fail)
    /\ UNCHANGED <<lexerVars, resolveVars, pipelineVars>>

ImportSong ==
    /\ imp.on /\ imp.pc = "songs"
    /\ \E fail \in {"", "songs", "performances"} : imp' = importSong(imp, fail)
    /\ UNCHANGED <<lexerVars, resolveVars, pipelineVars>>

\* WriteShows lines 130-134: the return after the last show.
ReturnWriteShows ==
    /\ imp.on /\ imp.pc = "shows" /\ imp.i > Len(imp.shows)
    /\ imp' = returns(imp, imp.showsAdded,
                      IF songsDelta(imp) < 0 THEN 0 ELSE songsDelta(imp), "")
    /\ UNCHANGED <<lexerVars, resolveVars, pipelineVars>>

NextImport == CallWriteShows \/ ImportShow \/ ImportSong \/ ReturnWriteShows

SpecImport == InitImport /\ [][NextImport]_vars

\* BuildSegueSQL (segue.go lines 30-48) for a chain of two songs, evaluated on
\* the performances table: the ids of the shows it selects.
segueShows(db, songA, songB, op) ==
    {db.performances[a].show_id : a \in
        {x \in DOMAIN db.performances : \E y \in DOMAIN db.performances :
            /\ db.performances[x].show_id = db.performances[y].show_id
            /\ db.performances[x].set_number = db.performances[y].set_number
            /\ db.performances[x].position = db.performances[y].position - 1
            /\ db.performances[x].song_id = songA
            /\ db.performances[y].song_id = songB
            /\ db.performances[x].segue_type = op}}

\* The ids of the rows of table shows that hold the given show of the input.
showRows(db, show) ==
    {db.shows[n].id : n \in
        {x \in DOMAIN db.shows :
            /\ db.shows[x].date = normalizeDate(show.Date)
            /\ \E v \in DOMAIN db.venues :
                  /\ db.venues[v].id = db.shows[x].venue_id
                  /\ db.venues[v].name = show.Venue.Name
                  /\ db.venues[v].city = show.Venue.City}}

\* The first call of WriteShows, on one show, has returned without error and
\* has inserted the show.
ImportedOne ==
    /\ imp.on
    /\ imp.pc = "returned"
    /\ imp.calls = 1
    /\ Len(imp.shows) = 1
    /\ imp.rets[1].err = ""
    /\ imp.rets[1].showsAdded = 1

\* The pairs of neighbours in a set of the one show, the later with
\* segue_before.
SeguePairs ==
    LET its == iterations(imp.shows[1].Sets, 1)
    IN {<<its[j], its[j + 1]>> : j \in
          {x \in 1..(Len(its) - 1) :
              its[x].setNumber = its[x + 1].setNumber /\ its[x + 1].song.SegueBefore}}

\* C25: a segue is recorded on the earlier performance: after the import of a
\* show whose set has a song A followed by a song B with segue_before, the
\* segue query A > B, which constrains the segue_type of A's performance,
\* selects the show.
C25_SegueOnEarlier ==
    ImportedOne =>
        \A pair \in SeguePairs :
            showRows(imp.db, imp.shows[1])
              \subseteq segueShows(imp.db,
                                   mapGet(imp.songByName, TrimSpace(pair[1].song.Name)),
                                   mapGet(imp.songByName, TrimSpace(pair[2].song.Name)), ">")

\* A show with A then B, segue_before on B only, has been imported.
C25_Witness ==
    /\ ImportedOne
    /\ \E pair \in SeguePairs : ~pair[1].song.SegueBefore
    /\ showRows(imp.db, imp.shows[1]) # {}

\* C26: the songsAdded a call of WriteShows returns is the number of rows the
\* call has inserted into songs.
C26_SongsAddedCountsRows ==
    (imp.on /\ imp.pc = "returned") =>
        imp.rets[Len(imp.rets)].songsAdded = Len(imp.db.songs) - Len(imp.before.songs)

\* A call has returned without error after resolving a name with a trailing
\* dash to a known song: an alias and no song has been inserted.
C26_Witness ==
    /\ imp.on
    /\ imp.pc = "returned"
    /\ imp.rets[Len(imp.rets)].err = ""
    /\ imp.db.song_aliases # imp.before.song_aliases
    /\ Len(imp.db.songs) = Len(imp.before.songs)

\* The performances of a show of the input as an import of the whole show
\* writes them, and the ones the table holds for a show row.
setlistOf(show) ==
    LET its == iterations(show.Sets, 1)
    IN [j \in DOMAIN its |->
          [set_number |-> its[j].setNumber, position |-> its[j].position,
           segue_type |-> IF its[j].song.SegueBefore THEN ">" ELSE "",
           is_opener |-> its[j].isOpener, is_closer |-> its[j].isCloser]]

isShow(row, showID) == row.show_id = showID

setlistIn(db, showID) ==
    LET rows == SelectSeq(db.performances, LAMBDA row : isShow(row, showID))
    IN [j \in DOMAIN rows |->
          [set_number |-> rows[j].set_number, position |-> rows[j].position,
           segue_type |-> rows[j].segue_type,
           is_opener |-> rows[j].is_opener, is_closer |-> rows[j].is_closer]]

\* The shows of the input an import writes: the date is one normalizeDate
\* reads, and no earlier show of the input has its date and venue.
Importable ==
    {n \in DOMAIN imp.shows :
        /\ normalizeDate(imp.shows[n].Date) # <<>>
        /\ \A k \in 1..(n - 1) :
              \/ normalizeDate(imp.shows[k].Date) # normalizeDate(imp.shows[n].Date)
              \/ imp.shows[k].Venue # imp.shows[n].Venue}

\* Every show of the input is in the database once and with its whole setlist.
ShowsComplete ==
    \A n \in Importable :
        /\ Cardinality(showRows(imp.db, imp.shows[n])) = 1
        /\ \A id \in showRows(imp.db, imp.shows[n]) :
              setlistIn(imp.db, id) = setlistOf(imp.shows[n])

\* A call of WriteShows has stopped on an error and a later call with the
\* same shows has returned without one.
Resumed ==
    /\ imp.on
    /\ imp.pc = "returned"
    /\ imp.calls = 2
    /\ imp.rets[1].err # ""
    /\ imp.rets[2].err = ""

\* C30: an interrupted import can be resumed: after a call that stopped part
\* way and a later call with the same shows, the database holds every show of
\* the input once and with all its performances, as after one whole import.
C30_Resumable == Resumed => ShowsComplete

\* The first call stopped after it inserted a show and before the last of
\* the show's performances, and the second call has returned.
C30_Witness ==
    /\ Resumed
    /\ imp.rets[1].showsAdded = 1
    /\ Len(imp.shows) = 1
    /\ \E id \in showRows(imp.db, imp.shows[1]) :
          Len(setlistIn(imp.db, id)) < Len(setlistOf(imp.shows[1]))

----------------------------------------------------------------------------
(* C27: no condition of the IR is dropped by the generator                  *)

\* The query without entry i of its Conditions.
withoutCondition(q, i) ==
    [q EXCEPT !.Conditions = SubSeq(@, 1, i - 1) \o SubSeq(@, i + 1, Len(@))]

\* The entries of Conditions the generated SQL has no predicate for: the SQL
\* text is the one generated for the query without the entry.
droppedConditions(q) ==
    {i \in DOMAIN q.Conditions : Generate(withoutCondition(q, i)).SQL = Generate(q).SQL}

\* C27: every entry of QueryIR.Conditions contributes at least one predicate
\* to the SQL generated for the query, whatever its query type.
C27_NoConditionDropped ==
    (stage = "generated" /\ irq # <<>>) => droppedConditions(irq[1]) = {}

\* SQL has been generated for a query with a condition.
C27_Witness ==
    /\ stage = "generated"
    /\ irq # <<>>
    /\ irq[1].Type = "QueryTypeShows"
    /\ \E i \in DOMAIN irq[1].Conditions : irq[1].Conditions[i].kind = "LengthConditionIR"

----------------------------------------------------------------------------
(* C28: ORDER BY of a SHOWS query with and without a segue chain            *)

\* SQL has been generated for a SHOWS query with a segue chain and an order.
SegueOrdered ==
    /\ stage = "generated"
    /\ irq # <<>>
    /\ irq[1].Type = "QueryTypeShows"
    /\ irq[1].SegueChain # <<>>
    /\ Len(irq[1].SegueChain[1].SongIDs) >= 2
    /\ irq[1].OrderBy # <<>>

\* C28: the SQL of a SHOWS query with a segue chain orders by the column and
\* direction the plain show generator derives from the order field.
C28_SameOrderColumn ==
    SegueOrdered => Count(sq[1].SQL, " " \o orderBy(irq[1], "s")) = 1

\* A segue query ordered by a field other than the date has been generated.
C28_Witness ==
    /\ SegueOrdered
    /\ ToUpper(irq[1].OrderBy[1].Field) \notin {<<>>, Runes("DATE")}

----------------------------------------------------------------------------
(* C29: the lexer consumes no character without a token for it              *)

\* The input has no comment, string literal, backslash or NUL: every
\* character but white space is to be the text of a token.
PlainInput == \A k \in DOMAIN lx.l.runes : lx.l.runes[k] \notin {"\"", "\\", "-", NUL}

isInk(r) == r \notin {" ", "\t", "\n", "\r"}

\* The lexer has returned EOF: the whole input is consumed.
LexedToEnd == lx.on /\ out # <<>> /\ out[Len(out)].Type = "EOF"

\* C29: on an input without comments, strings and backslashes the literals
\* of the tokens returned up to EOF are, one after the other, the input
\* without its white space: no character is consumed without being in a
\* token, and a token for an unexpected character carries that character.
C29_NothingSwallowed ==
    (LexedToEnd /\ PlainInput) =>
        Concat([i \in DOMAIN out |-> out[i].Literal]) = SelectSeq(lx.l.runes, isInk)

\* Digits with letters right after them that are no unit of time were lexed
\* as a number and the next token was returned.
C29_Witness ==
    /\ LexedToEnd
    /\ PlainInput
    /\ \E i \in DOMAIN out :
          /\ i < Len(out)
          /\ out[i].Type = "NUMBER"
          /\ LettersEnd(lx.l.runes, DigitsEnd(lx.l.runes, out[i].Pos.Offset + 1))
               > DigitsEnd(lx.l.runes, out[i].Pos.Offset + 1)

====
